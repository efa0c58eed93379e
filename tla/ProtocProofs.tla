---------------------------- MODULE ProtocProofs ----------------------------
(* That a run of protoc which fails leaves alone what it should, and one     *)
(* that succeeds has written all in its place, for any generators,           *)
(* locations, texts and bounds; and that it gets the whole response of a     *)
(* plugin or none, for pipes, buffers and sizes of any kind.                 *)
EXTENDS Protoc, PluginPipe, FiniteSetTheorems, WellFoundedInduction, TLAPS

Keys == Names \cup {NoName}
Stream == [dir : Locations, name : Keys, point : Points \cup {NoPoint}, text : Text, open : BOOLEAN]

Types ==
    /\ phase \in {"import", "generate", "write", "exit"} /\ status \in {-1, 0, 1}
    /\ directive \in Nat \ {0}
    /\ streams \in Seq(Stream) /\ current_output \in 0..Len(streams)
    /\ DOMAIN files_ = Locations
    /\ \A l \in Locations : DOMAIN files_[l] = Keys
    /\ had_error_ \in [Locations -> BOOLEAN]
    /\ disk \in [Locations -> [Names -> {"old", "partial", "whole"}]]
    /\ pending \in SUBSET Locations
    /\ failed \in BOOLEAN

\* A slot without a file stands only in a location that is not written any more.
Slots ==
    \A l \in Locations, n \in Keys :
      /\ files_[l][n].slot \in {"absent", "null", "file"}
      /\ ~had_error_[l] => files_[l][n].slot # "null"

Untouched == \A l \in Locations, n \in Names : disk[l][n] = "old"

\* Nothing is written before all is generated; what was written had its turn,
\* and had no error; what is over is over.
Order ==
    /\ phase # "exit" => status = -1
    /\ phase \in {"import", "generate"} => Untouched /\ pending = Locations
    /\ phase # "exit" => descriptor_set = "old"
    /\ failed => phase = "exit" /\ status = 1 /\ Untouched /\ descriptor_set = "old"
    /\ \A l \in Locations :
         had_error_[l] => l \in pending /\ \A n \in Names : disk[l][n] = "old"
    /\ \A l \in Locations, n \in Names : disk[l][n] # "old" => files_[l][n].slot = "file"
    /\ status = 0 => pending = {}
    /\ descriptor_set # "old" => pending = {}

PInv == Types /\ Slots /\ Order

-----------------------------------------------------------------------------

LEMMA InitHolds == Init => PInv
  <1> SUFFICES ASSUME Init PROVE PInv
    OBVIOUS
  <1>1. streams \in Seq(Stream) /\ current_output \in 0..Len(streams)
    BY DEF Init
  <1>2. /\ DOMAIN files_ = Locations /\ \A l \in Locations : DOMAIN files_[l] = Keys
        /\ had_error_ \in [Locations -> BOOLEAN]
        /\ disk \in [Locations -> [Names -> {"old", "partial", "whole"}]]
    BY DEF Init, Keys
  <1>3. /\ phase = "import" /\ directive = 1 /\ pending = Locations /\ status = -1
        /\ failed = FALSE
    BY DEF Init
  <1>4. Types
    <2>1. phase \in {"import", "generate", "write", "exit"} /\ status \in {-1, 0, 1}
      BY <1>3
    <2>2. directive \in Nat \ {0}
      BY <1>3
    <2>3. pending \in SUBSET Locations
      BY <1>3
    <2>4. failed \in BOOLEAN
      BY <1>3, Zenon
    <2> QED BY <1>1, <1>2, <2>1, <2>2, <2>3, <2>4 DEF Types
  <1>5. \A l \in Locations, n \in Keys : files_[l][n].slot = "absent"
    BY DEF Init, Keys, Absent
  <1>6. Slots
    BY <1>5 DEF Slots
  <1>7. Order
    BY DEF Init, Order, Untouched
  <1> QED BY <1>4, <1>6, <1>7 DEF PInv

\* What a stream leaves when it is destroyed.
LEMMA DestroyKeeps ==
  ASSUME PInv, NEW k, NEW s \in Stream, Destroy(k, s), phase = "generate",
         phase' \in {"generate", "exit"}, disk' = disk
  PROVE  /\ DOMAIN files_' = Locations
         /\ \A l \in Locations : DOMAIN files_'[l] = Keys
         /\ had_error_' \in [Locations -> BOOLEAN]
         /\ Slots'
  <1> DEFINE slot == files_[s.dir][s.name]
             new == IF Spoilt(slot, s) THEN IF slot.slot = "file" THEN slot ELSE Null
                    ELSE File(IF s.point = NoPoint THEN Lines(k, s.text, 0)
                              ELSE Inserted(slot.lines, k, s))
  <1>1. s.dir \in Locations /\ s.name \in Keys
    BY DEF Stream
  <1>2. /\ files_' = [files_ EXCEPT ![s.dir][s.name] = new]
        /\ had_error_' = [had_error_ EXCEPT ![s.dir] = @ \/ Spoilt(slot, s)]
    BY DEF Destroy
  <1>3. DOMAIN files_ = Locations /\ had_error_ \in [Locations -> BOOLEAN]
        /\ \A l \in Locations : DOMAIN files_[l] = Keys
    BY DEF PInv, Types
  <1>4. Spoilt(slot, s) \in BOOLEAN
    BY DEF Spoilt
  <1>5. new.slot \in {"null", "file"} /\ (new.slot = "null" => Spoilt(slot, s))
    BY DEF File, Null
  <1> HIDE DEF slot, new
  <1>6. \A l \in Locations, n \in Keys :
          files_'[l][n] = IF l = s.dir /\ n = s.name THEN new ELSE files_[l][n]
    BY <1>1, <1>2, <1>3
  <1>7. \A l \in Locations :
          had_error_'[l] = IF l = s.dir THEN had_error_[l] \/ Spoilt(slot, s) ELSE had_error_[l]
    BY <1>1, <1>2, <1>3
  <1>8. Slots'
    BY <1>5, <1>6, <1>7 DEF PInv, Slots
  <1>9. had_error_' \in [Locations -> BOOLEAN]
    BY <1>1, <1>2, <1>3, <1>4
  <1>10. DOMAIN files_' = Locations /\ \A l \in Locations : DOMAIN files_'[l] = Keys
    BY <1>1, <1>2, <1>3
  <1> QED BY <1>8, <1>9, <1>10

-----------------------------------------------------------------------------
(* The steps of the generators, which write nothing.                         *)

LEMMA ImportStep ==
  ASSUME PInv, Import
  PROVE  PInv'
  BY DEF PInv, Types, Slots, Order, Untouched, Import, Exit, generating, writing

\* While something is generated, what is left alone is left alone; a generator
\* that fails ends the run before anything is written.
LEMMA GeneratingKeepsOrder ==
  ASSUME PInv, phase = "generate", UNCHANGED writing,
         \/ UNCHANGED <<phase, status, failed>>
         \/ phase' = "exit" /\ status' = 1 /\ failed' = TRUE
  PROVE  Order'
  BY DEF PInv, Order, Untouched, writing

LEMMA ReturnsHow ==
  ASSUME PInv, NEW ok \in BOOLEAN, Returns(ok)
  PROVE  /\ \/ UNCHANGED <<phase, status, failed>>
            \/ phase' = "exit" /\ status' = 1 /\ failed' = TRUE
         /\ directive' \in Nat \ {0}
  BY DEF PInv, Types, Returns, Exit

\* A stream that is opened is one.
LEMMA NewIsStream ==
  ASSUME PInv, NEW plugin, Running(plugin),
         NEW n \in Keys, NEW p \in Points \cup {NoPoint}, NEW t \in Texts
  PROVE  /\ NewStream(n, p, t) \in Stream
         /\ Append(streams, NewStream(n, p, t)) \in Seq(Stream)
         /\ Len(Append(streams, NewStream(n, p, t))) = Len(streams) + 1
  <1>1. Now.location \in Locations
    BY ProtocAssumption DEF PInv, Types, Running, Now, Locations
  <1>2. t \in Text
    BY ProtocAssumption
  <1>3. NewStream(n, p, t) \in Stream
    BY <1>1, <1>2 DEF NewStream, Stream
  <1> QED BY <1>3 DEF PInv, Types

\* Closing a stream does not make it another.
LEMMA ShutIsStream ==
  ASSUME NEW ss \in Seq(Stream), NEW k \in 1..Len(ss)
  PROVE  /\ ss[k] \in Stream
         /\ [ss EXCEPT ![k].open = FALSE] \in Seq(Stream)
         /\ Len([ss EXCEPT ![k].open = FALSE]) = Len(ss)
  <1>1. ss[k] \in Stream
    OBVIOUS
  <1>2. \A s \in Stream : [s EXCEPT !.open = FALSE] \in Stream
    BY DEF Stream
  <1>3. [ss EXCEPT ![k].open = FALSE] = [ss EXCEPT ![k] = [ss[k] EXCEPT !.open = FALSE]]
    OBVIOUS
  <1> QED BY <1>1, <1>2, <1>3

LEMMA OpenStep ==
  ASSUME PInv, Open
  PROVE  PInv'
  <1>1. PICK n \in Names, p \in Points \cup {NoPoint}, t \in Texts :
          streams' = Append(streams, NewStream(n, p, t))
    BY DEF Open
  <1>2. streams' \in Seq(Stream) /\ Len(streams') = Len(streams) + 1
    BY <1>1, NewIsStream DEF Keys, Open
  <1>3. Types'
    BY <1>2 DEF PInv, Types, Open, writing
  <1>4. Slots'
    BY DEF PInv, Slots, Open
  <1>5. Order'
    BY DEF PInv, Order, Untouched, Open, writing
  <1> QED BY <1>3, <1>4, <1>5 DEF PInv

LEMMA CloseStep ==
  ASSUME PInv, CloseStream
  PROVE  PInv'
  <1>1. PICK k \in DOMAIN streams :
          /\ streams' = [streams EXCEPT ![k].open = FALSE]
          /\ Destroy(k, streams[k])
    BY DEF CloseStream
  <1>2. streams \in Seq(Stream) /\ k \in 1..Len(streams)
    BY <1>1 DEF PInv, Types
  <1>3. streams[k] \in Stream /\ streams' \in Seq(Stream) /\ Len(streams') = Len(streams)
    BY <1>1, <1>2, ShutIsStream
  <1>4. phase = "generate" /\ UNCHANGED <<phase, status, failed, directive, current_output, writing>>
    BY DEF CloseStream, Running
  <1>5. /\ DOMAIN files_' = Locations
        /\ \A l \in Locations : DOMAIN files_'[l] = Keys
        /\ had_error_' \in [Locations -> BOOLEAN]
        /\ Slots'
    BY <1>1, <1>3, <1>4, DestroyKeeps DEF writing
  <1>6. Types'
    BY <1>3, <1>4, <1>5 DEF PInv, Types, writing
  <1>7. Order'
    BY <1>4, GeneratingKeepsOrder
  <1> QED BY <1>5, <1>6, <1>7 DEF PInv

LEMMA ReturnStep ==
  ASSUME PInv, GeneratorReturns
  PROVE  PInv'
  <1>1. PICK ok \in BOOLEAN : Returns(ok)
    BY DEF GeneratorReturns
  <1>2. phase = "generate" /\ UNCHANGED <<streams, closed, current_output, files_, had_error_, writing>>
    BY DEF GeneratorReturns, Running
  <1>3. Types'
    BY <1>1, <1>2, ReturnsHow DEF PInv, Types, writing
  <1>4. Slots'
    BY <1>2 DEF PInv, Slots
  <1>5. Order'
    BY <1>1, <1>2, ReturnsHow, GeneratingKeepsOrder
  <1> QED BY <1>3, <1>4, <1>5 DEF PInv

\* current_output.reset(), whatever else becomes of the streams.
LEMMA ResetKeeps ==
  ASSUME PInv, phase = "generate", phase' \in {"generate", "exit"}, disk' = disk,
         NEW ss \in Seq(Stream), Len(streams) <= Len(ss), ResetCurrent(ss)
  PROVE  /\ streams' \in Seq(Stream) /\ Len(streams') = Len(ss)
         /\ DOMAIN files_' = Locations
         /\ \A l \in Locations : DOMAIN files_'[l] = Keys
         /\ had_error_' \in [Locations -> BOOLEAN]
         /\ Slots'
  <1>1. CASE current_output = 0
    BY <1>1 DEF ResetCurrent, PInv, Types, Slots
  <1>2. CASE current_output # 0
    <2>1. current_output \in 1..Len(streams) /\ current_output \in 1..Len(ss)
      BY <1>2 DEF PInv, Types
    <2>2. streams[current_output] \in Stream
      BY <2>1 DEF PInv, Types
    <2>3. Destroy(current_output, streams[current_output])
      BY <1>2 DEF ResetCurrent
    <2>4. streams' \in Seq(Stream) /\ Len(streams') = Len(ss)
      BY <1>2, <2>1, ShutIsStream DEF ResetCurrent
    <2> QED BY <2>2, <2>3, <2>4, DestroyKeeps
  <1> QED BY <1>1, <1>2

LEMMA ChunkOpensStep ==
  ASSUME PInv, ChunkOpens
  PROVE  PInv'
  <1>1. PICK n \in Keys, p \in Points \cup {NoPoint}, t \in Texts :
          ResetCurrent(Append(streams, NewStream(n, p, t)))
    BY DEF ChunkOpens, Keys
  <1> DEFINE ss == Append(streams, NewStream(n, p, t))
  <1>2. ss \in Seq(Stream) /\ Len(ss) = Len(streams) + 1
    BY NewIsStream DEF ChunkOpens
  <1>3. /\ phase = "generate" /\ UNCHANGED <<phase, directive, failed, status, writing>>
        /\ current_output' = Len(streams) + 1
    BY DEF ChunkOpens, Running
  <1>4. Len(streams) \in Nat
    BY DEF PInv, Types
  <1> HIDE DEF ss
  <1>5. /\ streams' \in Seq(Stream) /\ Len(streams') = Len(ss)
        /\ DOMAIN files_' = Locations
        /\ \A l \in Locations : DOMAIN files_'[l] = Keys
        /\ had_error_' \in [Locations -> BOOLEAN]
        /\ Slots'
    <2>1. ss \in Seq(Stream) /\ Len(streams) <= Len(ss)
      BY <1>2, <1>4
    <2>2. phase = "generate" /\ phase' \in {"generate", "exit"} /\ disk' = disk
      BY <1>3 DEF writing
    <2>3. ResetCurrent(ss)
      BY <1>1 DEF ss
    <2> QED BY <2>1, <2>2, <2>3, ResetKeeps
  <1>6. Types'
    BY <1>2, <1>3, <1>4, <1>5 DEF PInv, Types, writing
  <1>7. Order'
    BY <1>3, GeneratingKeepsOrder
  <1> QED BY <1>5, <1>6, <1>7 DEF PInv

LEMMA ChunkGoesOnStep ==
  ASSUME PInv, ChunkGoesOn
  PROVE  PInv'
  <1>1. PICK t \in Texts : streams' = [streams EXCEPT ![current_output].text = @ \o t]
    BY DEF ChunkGoesOn
  <1> DEFINE s == streams[current_output]
             longer == [s EXCEPT !.text = @ \o t]
  <1>2. current_output \in 1..Len(streams) /\ streams \in Seq(Stream)
    BY DEF PInv, Types, ChunkGoesOn
  <1>3. s \in Stream
    BY <1>2
  <1>4. s.text \in Text /\ t \in Text
    BY <1>3, ProtocAssumption DEF Stream
  <1>5. s.text \o t \in Text
    BY <1>4 DEF Text
  <1>6. longer \in Stream
    BY <1>3, <1>5 DEF Stream
  <1>7. streams' = [streams EXCEPT ![current_output] = longer]
    BY <1>1, <1>2
  <1> HIDE DEF longer, s
  <1>8. streams' \in Seq(Stream) /\ Len(streams') = Len(streams)
    BY <1>2, <1>6, <1>7
  <1>9. Types'
    BY <1>8 DEF PInv, Types, ChunkGoesOn, writing
  <1>10. Slots'
    BY DEF PInv, Slots, ChunkGoesOn
  <1>11. Order'
    BY DEF PInv, Order, Untouched, ChunkGoesOn, writing
  <1> QED BY <1>9, <1>10, <1>11 DEF PInv

LEMMA PluginReturnsStep ==
  ASSUME PInv, PluginReturns
  PROVE  PInv'
  <1>1. PICK ok \in BOOLEAN : Returns(ok)
    BY DEF PluginReturns
  <1>2. phase = "generate" /\ UNCHANGED writing /\ ResetCurrent(streams) /\ current_output' = 0
    BY DEF PluginReturns, Running
  <1>3. /\ \/ UNCHANGED <<phase, status, failed>>
           \/ phase' = "exit" /\ status' = 1 /\ failed' = TRUE
        /\ directive' \in Nat \ {0}
    BY <1>1, ReturnsHow
  <1>4. streams \in Seq(Stream) /\ Len(streams) \in Nat
    BY DEF PInv, Types
  <1>5. /\ streams' \in Seq(Stream) /\ Len(streams') = Len(streams)
        /\ DOMAIN files_' = Locations
        /\ \A l \in Locations : DOMAIN files_'[l] = Keys
        /\ had_error_' \in [Locations -> BOOLEAN]
        /\ Slots'
    BY <1>2, <1>3, <1>4, ResetKeeps DEF writing
  <1>6. Types'
    <2>1. streams' \in Seq(Stream) /\ current_output' \in 0..Len(streams')
      BY <1>2, <1>4, <1>5
    <2>2. phase' \in {"generate", "exit"} /\ status' \in {-1, 0, 1} /\ failed' \in BOOLEAN
      BY <1>2, <1>3 DEF PInv, Types
    <2>3. pending' \in SUBSET Locations /\ disk' \in [Locations -> [Names -> {"old", "partial", "whole"}]]
      BY <1>2 DEF PInv, Types, writing
    <2> QED BY <1>3, <1>5, <2>1, <2>2, <2>3 DEF Types
  <1>7. Order'
    BY <1>2, <1>3, GeneratingKeepsOrder
  <1> QED BY <1>5, <1>6, <1>7 DEF PInv

-----------------------------------------------------------------------------
(* The steps that write.                                                     *)

LEMMA StartStep ==
  ASSUME PInv, StartWriting
  PROVE  PInv'
  BY DEF PInv, Types, Slots, Order, Untouched, StartWriting, generating, writing

\* What a location's turn may do to it, and to nothing else.
LEMMA TurnKeepsOrder ==
  ASSUME PInv, phase = "write", NEW l \in pending, NEW what \in [Names -> {"old", "partial", "whole"}],
         disk' = [disk EXCEPT ![l] = what],
         ~had_error_[l] \/ what = disk[l],
         \A n \in Names : what[n] # "old" => files_'[l][n].slot = "file",
         \A m \in Locations \ {l}, n \in Names : files_'[m][n] = files_[m][n],
         UNCHANGED <<had_error_, failed, descriptor_set>>,
         \/ phase' = "exit" /\ status' = 1 /\ pending' = pending
         \/ phase' = phase /\ status' = status /\ pending' = pending \ {l} /\ ~had_error_[l]
  PROVE  Order' /\ disk' \in [Locations -> [Names -> {"old", "partial", "whole"}]]
  <1>1. l \in Locations /\ disk \in [Locations -> [Names -> {"old", "partial", "whole"}]]
    BY DEF PInv, Types
  <1>2. disk'[l] = what /\ \A m \in Locations \ {l} : disk'[m] = disk[m]
    BY <1>1
  <1>3. disk' \in [Locations -> [Names -> {"old", "partial", "whole"}]]
    BY <1>1
  <1>4. ~failed
    BY DEF PInv, Order
  <1>5. \A m \in Locations :
          had_error_'[m] => m \in pending' /\ \A n \in Names : disk'[m][n] = "old"
    BY <1>1, <1>2 DEF PInv, Order
  <1>6. \A m \in Locations, n \in Names : disk'[m][n] # "old" => files_'[m][n].slot = "file"
    BY <1>1, <1>2 DEF PInv, Order
  <1>7. descriptor_set = "old"
    BY DEF PInv, Order
  <1>8. phase' \in {"write", "exit"} /\ status' \in {-1, 1} /\ (phase' # "exit" => status' = -1)
    BY DEF PInv, Order
  <1> QED BY <1>3, <1>4, <1>5, <1>6, <1>7, <1>8 DEF Order

LEMMA DiskStep ==
  ASSUME PInv, NEW l \in Locations, WriteAllToDisk(l)
  PROVE  PInv'
  <1>1. /\ phase = "write" /\ l \in pending
        /\ UNCHANGED <<directive, streams, closed, current_output, files_, had_error_, failed,
                       descriptor_set, zipBroke>>
    BY DEF WriteAllToDisk, generating
  <1>2. disk \in [Locations -> [Names -> {"old", "partial", "whole"}]]
    BY DEF PInv, Types
  <1>3. \A n \in Names : disk[l][n] # "old" => files_[l][n].slot = "file"
    BY DEF PInv, Order
  <1>4. ~had_error_[l] => \A n \in Names : Present(l, n) => files_[l][n].slot = "file"
    BY DEF PInv, Slots, Present, Keys
  <1>5. PICK what \in [Names -> {"old", "partial", "whole"}] :
          /\ disk' = [disk EXCEPT ![l] = what]
          /\ ~had_error_[l] \/ what = disk[l]
          /\ \A n \in Names : what[n] # "old" => files_[l][n].slot = "file"
          /\ \/ phase' = "exit" /\ status' = 1 /\ pending' = pending
             \/ phase' = phase /\ status' = status /\ pending' = pending \ {l} /\ ~had_error_[l]
    <2>1. CASE Exit(1) /\ UNCHANGED <<pending, disk>>
      <3>1. disk[l] \in [Names -> {"old", "partial", "whole"}] /\ disk = [disk EXCEPT ![l] = disk[l]]
        BY <1>2
      <3> QED BY <2>1, <3>1, <1>3 DEF Exit
    <2>2. CASE /\ ~had_error_[l]
               /\ disk' = [disk EXCEPT ![l] = [n \in Names |-> IF Present(l, n) THEN "whole" ELSE @[n]]]
               /\ pending' = pending \ {l}
               /\ UNCHANGED <<phase, status>>
      <3> DEFINE what == [n \in Names |-> IF Present(l, n) THEN "whole" ELSE disk[l][n]]
      <3>1. what \in [Names -> {"old", "partial", "whole"}]
        BY <1>2
      <3>2. \A n \in Names : what[n] # "old" => files_[l][n].slot = "file"
        BY <1>3, <1>4, <2>2
      <3>3. disk' = [disk EXCEPT ![l] = what]
        BY <2>2, <1>2
      <3> QED BY <2>2, <3>1, <3>2, <3>3
    <2>3. CASE /\ ~had_error_[l]
               /\ \E k \in DOMAIN FileNames, what \in {"old", "partial"} :
                    /\ Present(l, FileNames[k])
                    /\ disk' = [disk EXCEPT ![l] = Written(l, k, what)]
               /\ Exit(1) /\ UNCHANGED pending
      <3>1. PICK k \in DOMAIN FileNames, w \in {"old", "partial"} :
              disk' = [disk EXCEPT ![l] = Written(l, k, w)]
        BY <2>3
      <3>2. Written(l, k, w) \in [Names -> {"old", "partial", "whole"}]
        BY <1>2 DEF Written
      <3>3. \A n \in Names : Written(l, k, w)[n] # "old" => files_[l][n].slot = "file"
        BY <1>3, <1>4, <2>3 DEF Written
      <3> QED BY <2>3, <3>1, <3>2, <3>3 DEF Exit
    <2> QED BY <2>1, <2>2, <2>3 DEF WriteAllToDisk
  <1>6. Order' /\ disk' \in [Locations -> [Names -> {"old", "partial", "whole"}]]
    BY <1>1, <1>5, TurnKeepsOrder
  <1>7. Types'
    BY <1>1, <1>5, <1>6 DEF PInv, Types
  <1>8. Slots'
    BY <1>1 DEF PInv, Slots
  <1> QED BY <1>6, <1>7, <1>8 DEF PInv

\* What is written of a location that goes into an archive has a file: its null
\* slots are not reached, and the manifest is added.
LEMMA ZipStep ==
  ASSUME PInv, NEW l \in Locations, WriteAllToZip(l)
  PROVE  PInv'
  <1>1. /\ phase = "write" /\ l \in pending
        /\ files_' = IF l \in Jars THEN [files_ EXCEPT ![l] = WithManifest(@)] ELSE files_
        /\ UNCHANGED <<directive, streams, closed, current_output, had_error_, failed, descriptor_set>>
    BY DEF WriteAllToZip
  <1>2. DOMAIN files_ = Locations /\ \A m \in Locations : DOMAIN files_[m] = Keys
    BY DEF PInv, Types
  <1>3. Manifest \in Keys
    BY ProtocAssumption DEF Keys
  <1>4. /\ DOMAIN files_' = Locations
        /\ \A m \in Locations \ {l} : files_'[m] = files_[m]
        /\ files_'[l] \in {files_[l], WithManifest(files_[l])}
    BY <1>1, <1>2
  <1>5. \A n \in Keys : WithManifest(files_[l])[n] = files_[l][n] \/ WithManifest(files_[l])[n].slot = "file"
    BY <1>2, <1>3 DEF WithManifest, File
  <1>6. DOMAIN WithManifest(files_[l]) = Keys
    BY <1>2 DEF WithManifest
  <1> HIDE DEF WithManifest
  <1>7. \A m \in Locations : DOMAIN files_'[m] = Keys
    BY <1>2, <1>4, <1>6
  <1>8. \A m \in Locations, n \in Keys : files_'[m][n] = files_[m][n] \/ files_'[m][n].slot = "file"
    BY <1>4, <1>5
  <1>9. Slots'
    BY <1>1, <1>8 DEF PInv, Slots
  <1>10. disk \in [Locations -> [Names -> {"old", "partial", "whole"}]]
    BY DEF PInv, Types
  <1>11. \A n \in Names : disk[l][n] # "old" => files_'[l][n].slot = "file"
    BY <1>8 DEF PInv, Order, Keys
  <1>12. ~had_error_[l] =>
           \A n \in Names : files_'[l][n].slot # "absent" => files_'[l][n].slot = "file"
    BY <1>1, <1>9 DEF Slots, Keys
  <1> DEFINE Turn(what) ==
          /\ disk' = [disk EXCEPT ![l] = what]
          /\ ~had_error_[l] \/ what = disk[l]
          /\ \A n \in Names : what[n] # "old" => files_'[l][n].slot = "file"
          /\ \/ phase' = "exit" /\ status' = 1 /\ pending' = pending
             \/ phase' = phase /\ status' = status /\ pending' = pending \ {l} /\ ~had_error_[l]
  <1>13. \E what \in [Names -> {"old", "partial", "whole"}] : Turn(what)
    <2>1. CASE Exit(1) /\ UNCHANGED <<pending, disk, zipBroke>>
      <3>1. disk[l] \in [Names -> {"old", "partial", "whole"}] /\ disk = [disk EXCEPT ![l] = disk[l]]
        BY <1>10
      <3> QED BY <2>1, <3>1, <1>11 DEF Exit
    <2>2. ASSUME ~had_error_[l], NEW whole \in BOOLEAN,
                 disk' = [disk EXCEPT ![l] =
                            [n \in Names |-> IF files_'[l][n].slot = "absent" THEN @[n]
                                             ELSE IF whole THEN "whole" ELSE "partial"]],
                 pending' = pending \ {l}, UNCHANGED <<phase, status>>
          PROVE  \E what \in [Names -> {"old", "partial", "whole"}] : Turn(what)
      <3> DEFINE w == [n \in Names |-> IF files_'[l][n].slot = "absent" THEN disk[l][n]
                                       ELSE IF whole THEN "whole" ELSE "partial"]
      <3>1. w \in [Names -> {"old", "partial", "whole"}]
        BY <1>10
      <3>2. \A n \in Names : w[n] # "old" => files_'[l][n].slot = "file"
        BY <1>11, <1>12, <2>2
      <3>3. disk' = [disk EXCEPT ![l] = w]
        BY <2>2, <1>10
      <3> HIDE DEF w
      <3> QED BY <2>2, <3>1, <3>2, <3>3
    <2> QED BY <2>1, <2>2 DEF WriteAllToZip
  <1>14. Order' /\ disk' \in [Locations -> [Names -> {"old", "partial", "whole"}]]
    <2>1. \A m \in Locations \ {l}, n \in Names : files_'[m][n] = files_[m][n]
      BY <1>4
    <2> QED BY <1>1, <1>13, <2>1, TurnKeepsOrder
  <1>15. Types'
    BY <1>1, <1>4, <1>7, <1>13, <1>14 DEF PInv, Types
  <1> QED BY <1>9, <1>14, <1>15 DEF PInv

LEMMA SetStep ==
  ASSUME PInv, WriteDescriptorSet
  PROVE  PInv'
  BY DEF PInv, Types, Slots, Order, Untouched, WriteDescriptorSet, Exit, generating

LEMMA NextHolds == PInv /\ [Next]_vars => PInv'
  <1> SUFFICES ASSUME PInv, [Next]_vars PROVE PInv'
    OBVIOUS
  <1>1. CASE UNCHANGED vars
    BY <1>1 DEF PInv, Types, Slots, Order, Untouched, vars, generating, writing
  <1>2. ASSUME NEW l \in Locations, WriteAllToDisk(l) \/ WriteAllToZip(l) PROVE PInv'
    BY <1>2, DiskStep, ZipStep
  <1> QED BY <1>1, <1>2, ImportStep, OpenStep, CloseStep, ReturnStep, ChunkOpensStep,
             ChunkGoesOnStep, PluginReturnsStep, StartStep, SetStep DEF Next

\* Files, errors, the disk and what Run is at fit together at every step of
\* CommandLineInterface::Run.
THEOREM ProtocInvariance == Spec => []PInv
  <1> QED BY InitHolds, NextHolds, PTL DEF Spec

\* Whatever the generators do, and however many there are: one that fails has
\* the disk left as it was, a location with an error is left alone, and only
\* files with contents are written.
THEOREM FailuresTouchNothing == Spec => []FailureTouchesNothing
  <1>1. PInv => FailureTouchesNothing
    <2> SUFFICES ASSUME PInv PROVE FailureTouchesNothing
      OBVIOUS
    <2>1. failed => disk = [l \in Locations |-> [n \in Names |-> "old"]] /\ descriptor_set = "old"
      <3>1. disk \in [Locations -> [Names -> {"old", "partial", "whole"}]]
        BY DEF PInv, Types
      <3>2. failed => descriptor_set = "old" /\ \A l \in Locations, n \in Names : disk[l][n] = "old"
        BY DEF PInv, Order, Untouched
      <3> QED BY <3>1, <3>2
    <2>2. \A l \in Locations :
            had_error_[l] => status # 0 /\ \A n \in Names : disk[l][n] = "old"
      BY DEF PInv, Order
    <2>3. /\ \A l \in Locations, n \in Names : disk[l][n] # "old" => files_[l][n].slot = "file"
          /\ descriptor_set # "old" => pending = {}
      BY DEF PInv, Order
    <2> QED BY <2>1, <2>2, <2>3 DEF FailureTouchesNothing
  <1> QED BY <1>1, ProtocInvariance, PTL

-----------------------------------------------------------------------------
(* The lines of the files.                                                   *)

Line == [of : Nat, at : Nat, indent : Nat, point : Points \cup {NoPoint}]

\* The point that the stream a line is of inserts at.
Aim(ss, line) == ss[line.of].point
Unique(lines, p) == \A i, j \in 1..Len(lines) : lines[i].point = p /\ lines[j].point = p => i = j
Earlier(cl, k, m) == \E i, j \in DOMAIN cl : i < j /\ cl[i] = k /\ cl[j] = m
Done(ss, cl, k) == k \in DOMAIN ss /\ ~ss[k].open /\ \E c \in DOMAIN cl : cl[c] = k

\* The lines of a file are those of streams destroyed, each stream's in order;
\* those inserted at a point borne once are in the order of the streams, above
\* the line that bears it.
OwnOrder(lines) ==
    \A i, j \in 1..Len(lines) : i < j /\ lines[i].of = lines[j].of => lines[i].at < lines[j].at
InTurn(lines, ss, cl) ==
    \A i, j \in 1..Len(lines) :
      /\ i < j /\ lines[i].of # lines[j].of
      /\ Aim(ss, lines[i]) = Aim(ss, lines[j])
      /\ Aim(ss, lines[i]) # NoPoint /\ Unique(lines, Aim(ss, lines[i]))
      => Earlier(cl, lines[i].of, lines[j].of)
Above(lines, ss) ==
    \A i \in 1..Len(lines) :
      Aim(ss, lines[i]) # NoPoint /\ Unique(lines, Aim(ss, lines[i])) =>
        \E j \in 1..Len(lines) :
          /\ i < j /\ lines[j].point = Aim(ss, lines[i])
          /\ lines[i].indent = lines[j].indent + ss[lines[i].of].text[lines[i].at].indent
InFile(lines, ss, cl) ==
    /\ lines \in Seq(Line)
    /\ \A i \in 1..Len(lines) : Done(ss, cl, lines[i].of)
    /\ OwnOrder(lines) /\ InTurn(lines, ss, cl) /\ Above(lines, ss)
InFiles == \A l \in Locations, n \in Keys : InFile(files_[l][n].lines, streams, closed)

AllOf(lines, k, text) == \A i \in DOMAIN text : \E j \in 1..Len(lines) : lines[j].of = k /\ lines[j].at = i

\* All that a stream wrote is in its file, unless there was an error.
Kept ==
    \A k \in DOMAIN streams :
      LET s == streams[k] IN
      ~s.open /\ ~had_error_[s.dir] =>
        /\ files_[s.dir][s.name].slot = "file" /\ s.name \in Names
        /\ AllOf(files_[s.dir][s.name].lines, k, s.text)

\* A stream is open only while its generator runs, a plugin's only while it is
\* the current one.
Hands ==
    /\ current_output # 0 => streams[current_output].open /\ Running(TRUE)
    /\ \A k \in DOMAIN streams : streams[k].open =>
         phase = "generate" /\ directive <= Len(Directives) /\ (Now.plugin => k = current_output)

\* What had its turn was written.
WrittenOut ==
    \A l \in Locations \ pending :
      zipBroke \/ \A n \in Names : files_[l][n].slot # "absent" => disk[l][n] = "whole"

\* A file without a name, to insert into, is never there.
Nameless ==
    /\ \A k \in DOMAIN streams : streams[k].name = NoName => streams[k].point # NoPoint
    /\ \A l \in Locations : files_[l][NoName].slot # "file"

LInv == PInv /\ closed \in Seq(Nat) /\ InFiles /\ Kept /\ Nameless /\ Hands /\ WrittenOut

-----------------------------------------------------------------------------
\* Operators.

LEMMA Least ==
  ASSUME NEW T \in SUBSET Nat, T # {}
  PROVE  \E x \in T : \A y \in T : x <= y
  <1> DEFINE R == OpToRel(<, Nat)
  <1>1. PICK x \in T : \A y \in T : ~ (<<y, x>> \in R)
    <2>1. IsWellFoundedOn(R, Nat)
      BY NatLessThanWellFounded
    <2> HIDE DEF R
    <2> QED BY <2>1, WFMin, Zenon
  <1>2. SUFFICES ASSUME NEW y \in T PROVE x <= y
    BY <1>1
  <1>3. y \in Nat /\ x \in Nat
    OBVIOUS
  <1>4. ~ (<<y, x>> \in R)
    BY <1>1
  <1>5. R = {ss \in Nat \X Nat : ss[1] < ss[2]}
    BY DEF OpToRel
  <1>6. ~ (y < x)
    <2> HIDE DEF R
    <2> SUFFICES ASSUME y < x PROVE FALSE
      OBVIOUS
    <2>1. <<y, x>> \in Nat \X Nat /\ <<y, x>>[1] < <<y, x>>[2]
      BY <1>3
    <2> QED BY <2>1, <1>4, <1>5
  <1> QED BY <1>3, <1>6

\* The line to insert above is the first that bears the point.
LEMMA FirstAtIs ==
  ASSUME NEW lines \in Seq(Line), NEW p, \E i \in DOMAIN lines : lines[i].point = p
  PROVE  /\ FirstAt(lines, p) \in 1..Len(lines)
         /\ lines[FirstAt(lines, p)].point = p
         /\ \A j \in 1..(FirstAt(lines, p) - 1) : lines[j].point # p
  <1> DEFINE T == {i \in 1..Len(lines) : lines[i].point = p}
             IsFirst(i) == lines[i].point = p /\ \A j \in 1..(i - 1) : lines[j].point # p
  <1>1. DOMAIN lines = 1..Len(lines) /\ Len(lines) \in Nat
    OBVIOUS
  <1>2. T \in SUBSET Nat /\ T # {}
    BY <1>1
  <1>3. PICK x \in T : \A y \in T : x <= y
    BY <1>2, Least
  <1>4. x \in 1..Len(lines) /\ IsFirst(x)
    BY <1>1, <1>3
  <1>5. FirstAt(lines, p) = CHOOSE i \in DOMAIN lines : IsFirst(i)
    BY DEF FirstAt
  <1> HIDE DEF IsFirst
  <1>6. FirstAt(lines, p) \in DOMAIN lines /\ IsFirst(FirstAt(lines, p))
    BY <1>1, <1>4, <1>5
  <1> QED BY <1>1, <1>6 DEF IsFirst

LEMMA ConcatFacts ==
  ASSUME NEW S, NEW s \in Seq(S), NEW t \in Seq(S)
  PROVE  /\ s \o t \in Seq(S) /\ Len(s \o t) = Len(s) + Len(t)
         /\ \A i \in 1..Len(s) : (s \o t)[i] = s[i]
         /\ \A i \in 1..Len(t) : (s \o t)[Len(s) + i] = t[i]
  OBVIOUS

\* t put into s above element m.
Spliced(s, m, t) == SubSeq(s, 1, m - 1) \o t \o SubSeq(s, m, Len(s))

LEMMA SplicedFacts ==
  ASSUME NEW S, NEW s \in Seq(S), NEW t \in Seq(S), NEW m \in 1..Len(s)
  PROVE  /\ Spliced(s, m, t) \in Seq(S) /\ Len(Spliced(s, m, t)) = Len(s) + Len(t)
         /\ \A i \in 1..(m - 1) : Spliced(s, m, t)[i] = s[i]
         /\ \A i \in 1..Len(t) : Spliced(s, m, t)[m - 1 + i] = t[i]
         /\ \A i \in m..Len(s) : Spliced(s, m, t)[i + Len(t)] = s[i]
  <1> DEFINE a == SubSeq(s, 1, m - 1)  z == SubSeq(s, m, Len(s))
             b == a \o t              r == b \o z
  <1>0. m \in Nat /\ Len(s) \in Nat /\ Len(t) \in Nat /\ m >= 1 /\ m <= Len(s)
    OBVIOUS
  <1>1. a \in Seq(S) /\ Len(a) = m - 1 /\ \A i \in 1..(m - 1) : a[i] = s[i]
    OBVIOUS
  <1>2. z \in Seq(S) /\ Len(z) = Len(s) - m + 1 /\ \A i \in 1..(Len(s) - m + 1) : z[i] = s[m - 1 + i]
    OBVIOUS
  <1> HIDE DEF a, z, b, r
  <1>3. /\ b \in Seq(S) /\ Len(b) = Len(a) + Len(t)
        /\ \A i \in 1..Len(a) : b[i] = a[i]
        /\ \A i \in 1..Len(t) : b[Len(a) + i] = t[i]
    <2>1. a \in Seq(S) /\ t \in Seq(S)
      BY <1>1
    <2> QED BY <2>1, ConcatFacts DEF b
  <1>5. b \in Seq(S) /\ Len(b) = m - 1 + Len(t)
    BY <1>1, <1>3
  <1>6. /\ r \in Seq(S) /\ Len(r) = Len(b) + Len(z)
        /\ \A i \in 1..Len(b) : r[i] = b[i]
        /\ \A i \in 1..Len(z) : r[Len(b) + i] = z[i]
    <2>1. b \in Seq(S) /\ z \in Seq(S)
      BY <1>2, <1>5
    <2> QED BY <2>1, ConcatFacts DEF r
  <1>7. Len(r) = Len(s) + Len(t)
    <2>1. Len(r) = Len(b) + Len(z) /\ Len(b) = m - 1 + Len(t) /\ Len(z) = Len(s) - m + 1
      BY <1>2, <1>5, <1>6
    <2> QED BY <2>1, <1>0
  <1>8. \A i \in 1..(m - 1) : r[i] = s[i]
    <2> TAKE i \in 1..(m - 1)
    <2>1. i \in 1..Len(b) /\ i \in 1..Len(a)
      BY <1>0, <1>1, <1>5
    <2> QED BY <2>1, <1>1, <1>3, <1>6
  <1>9. \A i \in 1..Len(t) : r[m - 1 + i] = t[i]
    <2> TAKE i \in 1..Len(t)
    <2>1. m - 1 + i \in 1..Len(b) /\ m - 1 + i = Len(a) + i
      BY <1>0, <1>1, <1>5
    <2> QED BY <2>1, <1>3, <1>6
  <1>10. \A i \in m..Len(s) : r[i + Len(t)] = s[i]
    <2> TAKE i \in m..Len(s)
    <2> DEFINE q == i - m + 1
    <2>1. q \in 1..Len(z) /\ Len(b) + q = i + Len(t) /\ q \in 1..(Len(s) - m + 1) /\ m - 1 + q = i
      BY <1>0, <1>2, <1>5
    <2> HIDE DEF q
    <2>2. r[Len(b) + q] = z[q] /\ z[q] = s[m - 1 + q]
      BY <2>1, <1>2, <1>6
    <2> QED BY <2>1, <2>2
  <1>11. Spliced(s, m, t) = r
    BY DEF Spliced, r, b, a, z
  <1> QED BY <1>6, <1>7, <1>8, <1>9, <1>10, <1>11

\* Lines inserted where they belong leave all lines in their places.
LEMMA InsertKeeps ==
  ASSUME NEW lines, NEW new \in Seq(Line), NEW m \in 1..Len(lines), NEW ss, NEW cl, NEW k,
         InFile(lines, ss, cl), Done(ss, cl, k), ss[k].point # NoPoint,
         lines[m].point = ss[k].point,
         \A i \in 1..Len(lines) : lines[i].of # k /\ Earlier(cl, lines[i].of, k),
         \A i \in 1..Len(new) :
           new[i].of = k /\ new[i].at = i /\ new[i].indent = lines[m].indent + ss[k].text[i].indent
  PROVE  /\ InFile(Spliced(lines, m, new), ss, cl)
         /\ \A i \in 1..Len(lines) :
              \E j \in 1..Len(Spliced(lines, m, new)) : Spliced(lines, m, new)[j] = lines[i]
         /\ \A i \in 1..Len(new) :
              \E j \in 1..Len(Spliced(lines, m, new)) : Spliced(lines, m, new)[j] = new[i]
  <1> DEFINE r == Spliced(lines, m, new)
             n == Len(new)
             len == Len(lines)
             IsOld(i, o) == o \in 1..len /\ ((o < m /\ i = o) \/ (o >= m /\ i = o + n))
             IsNew(i, q) == q \in 1..n /\ i = m - 1 + q
  <1>1. lines \in Seq(Line)
    BY DEF InFile
  <1>2. /\ r \in Seq(Line) /\ Len(r) = len + n
        /\ \A i \in 1..(m - 1) : r[i] = lines[i]
        /\ \A i \in 1..n : r[m - 1 + i] = new[i]
        /\ \A i \in m..len : r[i + n] = lines[i]
    <2> HIDE DEF IsOld, IsNew
    <2>1. lines \in Seq(Line) /\ new \in Seq(Line) /\ m \in 1..Len(lines)
      BY <1>1
    <2> HIDE DEF n, len, r
    <2>2. r \in Seq(Line)
      BY <2>1, SplicedFacts DEF r
    <2>3. Len(r) = Len(lines) + Len(new)
      BY <2>1, SplicedFacts DEF r
    <2>4. \A i \in 1..(m - 1) : r[i] = lines[i]
      BY <2>1, SplicedFacts DEF r
    <2>5. \A i \in 1..Len(new) : r[m - 1 + i] = new[i]
      BY <2>1, SplicedFacts DEF r
    <2>6. \A i \in m..Len(lines) : r[i + Len(new)] = lines[i]
      BY <2>1, SplicedFacts DEF r
    <2> QED BY <2>2, <2>3, <2>4, <2>5, <2>6 DEF n, len
  <1>3. m \in Nat /\ len \in Nat /\ n \in Nat /\ m >= 1 /\ m <= len
    BY <1>1
  <1> HIDE DEF r, n, len
  <1>4. ASSUME NEW i, NEW o, IsOld(i, o) PROVE i \in 1..Len(r) /\ r[i] = lines[o]
    <2>1. CASE o < m /\ i = o
      BY <1>2, <1>3, <1>4, <2>1
    <2>2. CASE o >= m /\ i = o + n
      <3>1. o \in m..len /\ i \in 1..(len + n)
        BY <1>3, <1>4, <2>2
      <3> QED BY <1>2, <2>2, <3>1
    <2> QED BY <1>4, <2>1, <2>2
  <1>5. ASSUME NEW i, NEW q, IsNew(i, q) PROVE i \in 1..Len(r) /\ r[i] = new[q]
    BY <1>2, <1>3, <1>5
  <1>6. ASSUME NEW i \in 1..Len(r) PROVE (\E o : IsOld(i, o)) \/ (\E q : IsNew(i, q))
    <2>1. i \in 1..(len + n) /\ i \in Nat
      BY <1>2, <1>3
    <2>2. CASE i < m
      <3>1. i \in 1..len
        BY <1>3, <2>1, <2>2
      <3>2. IsOld(i, i)
        BY <2>2, <3>1
      <3> QED BY <3>2
    <2>3. CASE i >= m /\ i < m + n
      <3> DEFINE q == i - m + 1
      <3>1. q \in 1..n /\ i = m - 1 + q
        BY <1>3, <2>1, <2>3
      <3> HIDE DEF q
      <3>2. IsNew(i, q)
        BY <3>1
      <3> QED BY <3>2
    <2>4. CASE i >= m + n
      <3> DEFINE o == i - n
      <3>1. o \in 1..len /\ o >= m /\ i = o + n
        BY <1>3, <2>1, <2>4
      <3> HIDE DEF o
      <3>2. IsOld(i, o)
        BY <3>1
      <3> QED BY <3>2
    <2> QED BY <1>3, <2>1, <2>2, <2>3, <2>4
  <1>7. ASSUME NEW i, NEW j, NEW o, NEW u, IsOld(i, o), IsOld(j, u)
        PROVE  (i < j => o < u) /\ (o < u => i < j) /\ (i = j => o = u)
    BY <1>3, <1>7
  <1>8. \A o \in 1..len : \E i : IsOld(i, o)
    <2> TAKE o \in 1..len
    <2>1. o \in Nat /\ (o < m \/ o >= m)
      BY <1>3
    <2>2. CASE o < m
      <3>1. IsOld(o, o)
        BY <2>2
      <3> QED BY <3>1
    <2>3. CASE o >= m
      <3>1. IsOld(o + n, o)
        BY <2>3
      <3> QED BY <3>1
    <2> QED BY <2>1, <2>2, <2>3
  <1>9. ASSUME NEW x, Unique(r, x) PROVE Unique(lines, x)
    <2> SUFFICES ASSUME NEW o \in 1..len, NEW u \in 1..len, lines[o].point = x, lines[u].point = x
                 PROVE  o = u
      BY DEF Unique, len
    <2>1. PICK i, j : IsOld(i, o) /\ IsOld(j, u)
      BY <1>8
    <2> HIDE DEF IsOld
    <2>2. i \in 1..Len(r) /\ j \in 1..Len(r) /\ r[i].point = x /\ r[j].point = x
      BY <1>4, <2>1
    <2>3. i = j
      BY <1>9, <2>2 DEF Unique
    <2> QED BY <1>7, <2>1, <2>3
  <1> HIDE DEF IsOld, IsNew
  <1>10. ASSUME NEW i, NEW o, IsOld(i, o) PROVE o \in 1..len /\ lines[o] \in Line /\ r[i] = lines[o]
    <2>1. o \in 1..len
      BY <1>10 DEF IsOld
    <2>2. r[i] = lines[o]
      BY <1>4, <1>10
    <2> QED BY <1>1, <2>1, <2>2 DEF len
  <1>11. ASSUME NEW i, NEW q, IsNew(i, q)
         PROVE  /\ q \in 1..n /\ r[i] = new[q] /\ r[i].of = k /\ r[i].at = q
                /\ Aim(ss, r[i]) = ss[k].point
                /\ r[i].indent = lines[m].indent + ss[k].text[q].indent
    <2>1. q \in 1..n /\ r[i] = new[q] /\ q \in 1..Len(new)
      BY <1>5, <1>11 DEF IsNew, n
    <2>2. new[q].of = k /\ new[q].at = q /\ new[q].indent = lines[m].indent + ss[k].text[q].indent
      BY <2>1
    <2> QED BY <2>1, <2>2 DEF Aim
  <1>12. ASSUME NEW i, NEW o, IsOld(i, o) PROVE r[i].of # k /\ Earlier(cl, r[i].of, k)
    BY <1>10, <1>12 DEF len
  <1>13. \A i \in 1..Len(r) : Done(ss, cl, r[i].of)
    <2> TAKE i \in 1..Len(r)
    <2>1. ASSUME NEW o, IsOld(i, o) PROVE Done(ss, cl, r[i].of)
      BY <1>10, <2>1 DEF InFile, len
    <2>2. ASSUME NEW q, IsNew(i, q) PROVE Done(ss, cl, r[i].of)
      BY <1>11, <2>2
    <2> QED BY <1>6, <2>1, <2>2
  <1>14. OwnOrder(r)
    <2> SUFFICES ASSUME NEW i \in 1..Len(r), NEW j \in 1..Len(r), i < j, r[i].of = r[j].of
                 PROVE  r[i].at < r[j].at
      BY DEF OwnOrder
    <2>1. ASSUME NEW o, NEW u, IsOld(i, o), IsOld(j, u) PROVE r[i].at < r[j].at
      <3>1. o < u
        BY <1>7, <2>1
      <3> QED BY <1>10, <2>1, <3>1 DEF InFile, OwnOrder, len
    <2>2. ASSUME NEW o, NEW u, IsNew(i, o), IsNew(j, u) PROVE r[i].at < r[j].at
      <3>1. o < u
        BY <1>3, <2>2 DEF IsNew
      <3> QED BY <1>11, <2>2, <3>1
    <2>3. ~ \E o, u : IsOld(i, o) /\ IsNew(j, u)
      BY <1>11, <1>12
    <2>4. ~ \E o, u : IsNew(i, o) /\ IsOld(j, u)
      BY <1>11, <1>12
    <2> QED BY <1>6, <2>1, <2>2, <2>3, <2>4
  <1>15. Above(r, ss)
    <2> SUFFICES ASSUME NEW i \in 1..Len(r), Aim(ss, r[i]) # NoPoint, Unique(r, Aim(ss, r[i]))
                 PROVE  \E j \in 1..Len(r) :
                          /\ i < j /\ r[j].point = Aim(ss, r[i])
                          /\ r[i].indent = r[j].indent + ss[r[i].of].text[r[i].at].indent
      BY DEF Above
    <2>1. ASSUME NEW o, IsOld(i, o)
          PROVE  \E j \in 1..Len(r) :
                   /\ i < j /\ r[j].point = Aim(ss, r[i])
                   /\ r[i].indent = r[j].indent + ss[r[i].of].text[r[i].at].indent
      <3>1. o \in 1..len /\ r[i] = lines[o] /\ Unique(lines, Aim(ss, lines[o])) /\ Aim(ss, lines[o]) # NoPoint
        BY <1>9, <1>10, <2>1
      <3>2. PICK u \in 1..len :
              /\ o < u /\ lines[u].point = Aim(ss, lines[o])
              /\ lines[o].indent = lines[u].indent + ss[lines[o].of].text[lines[o].at].indent
        BY <3>1 DEF InFile, Above, len
      <3>3. PICK j : IsOld(j, u)
        BY <1>8
      <3>4. i < j
        BY <1>7, <2>1, <3>2, <3>3
      <3>5. j \in 1..Len(r) /\ r[j] = lines[u]
        BY <1>4, <3>3
      <3> QED BY <3>1, <3>2, <3>4, <3>5
    <2>2. ASSUME NEW q, IsNew(i, q)
          PROVE  \E j \in 1..Len(r) :
                   /\ i < j /\ r[j].point = Aim(ss, r[i])
                   /\ r[i].indent = r[j].indent + ss[r[i].of].text[r[i].at].indent
      <3>1. IsOld(m + n, m)
        BY <1>3 DEF IsOld
      <3>2. m + n \in 1..Len(r) /\ r[m + n] = lines[m]
        BY <1>4, <3>1
      <3>3. i < m + n
        BY <1>3, <2>2 DEF IsNew
      <3>4. /\ r[m + n].point = Aim(ss, r[i])
            /\ r[i].indent = r[m + n].indent + ss[r[i].of].text[r[i].at].indent
        BY <1>11, <2>2, <3>2
      <3> QED BY <3>2, <3>3, <3>4
    <2> QED BY <1>6, <2>1, <2>2
  <1>16. InTurn(r, ss, cl)
    <2> SUFFICES ASSUME NEW i \in 1..Len(r), NEW j \in 1..Len(r), i < j, r[i].of # r[j].of,
                        Aim(ss, r[i]) = Aim(ss, r[j]), Aim(ss, r[i]) # NoPoint,
                        Unique(r, Aim(ss, r[i]))
                 PROVE  Earlier(cl, r[i].of, r[j].of)
      BY DEF InTurn
    <2>1. ASSUME NEW o, NEW u, IsOld(i, o), IsOld(j, u) PROVE Earlier(cl, r[i].of, r[j].of)
      <3>1. o < u
        BY <1>7, <2>1
      <3>2. /\ o \in 1..len /\ u \in 1..len /\ r[i] = lines[o] /\ r[j] = lines[u]
            /\ Unique(lines, Aim(ss, lines[o]))
        BY <1>9, <1>10, <2>1
      <3> QED BY <3>1, <3>2 DEF InFile, InTurn, len
    <2>2. ASSUME NEW o, NEW u, IsOld(i, o), IsNew(j, u) PROVE Earlier(cl, r[i].of, r[j].of)
      BY <1>11, <1>12, <2>2
    <2>3. ASSUME NEW o, NEW u, IsNew(i, o), IsNew(j, u) PROVE FALSE
      BY <1>11, <2>3
    \* An older line below the new ones would have been inserted above another
    \* line with that point.
    <2>4. ASSUME NEW q, NEW u, IsNew(i, q), IsOld(j, u) PROVE FALSE
      <3>1. r[j] = lines[u] /\ u \in 1..len /\ Unique(lines, Aim(ss, lines[u])) /\ Aim(ss, lines[u]) # NoPoint
        BY <1>9, <1>10, <2>4
      <3>2. PICK v \in 1..len : u < v /\ lines[v].point = Aim(ss, lines[u])
        BY <3>1 DEF InFile, Above, len
      <3>3. Aim(ss, lines[u]) = ss[k].point
        BY <1>11, <2>4, <3>1
      <3>4. v = m
        BY <3>1, <3>2, <3>3 DEF Unique, len
      <3>5. u >= m /\ u \in Nat
        BY <1>3, <2>4 DEF IsNew, IsOld
      <3>6. v > u /\ v \in Nat
        BY <1>3, <3>2
      <3> QED BY <1>3, <3>4, <3>5, <3>6
    <2> QED BY <1>6, <2>1, <2>2, <2>3, <2>4
  <1>17. InFile(r, ss, cl)
    BY <1>2, <1>13, <1>14, <1>15, <1>16 DEF InFile
  <1>18. \A o \in 1..Len(lines) : \E j \in 1..Len(r) : r[j] = lines[o]
    BY <1>4, <1>8 DEF len
  <1>19. \A q \in 1..Len(new) : \E j \in 1..Len(r) : r[j] = new[q]
    <2> TAKE q \in 1..Len(new)
    <2>1. IsNew(m - 1 + q, q)
      BY DEF IsNew, n
    <2> QED BY <1>5, <2>1
  <1> QED BY <1>17, <1>18, <1>19 DEF r

LEMMA LinesAre ==
  ASSUME NEW k \in Nat, NEW text \in Text, NEW indent \in Nat
  PROVE  /\ Lines(k, text, indent) \in Seq(Line) /\ Len(Lines(k, text, indent)) = Len(text)
         /\ \A i \in 1..Len(text) :
              Lines(k, text, indent)[i] = [of |-> k, at |-> i, indent |-> indent + text[i].indent,
                                           point |-> text[i].point]
  <1> DEFINE One(i) == [of |-> k, at |-> i, indent |-> indent + text[i].indent, point |-> text[i].point]
             n == Len(text)
  <1>1. DOMAIN text = 1..n /\ n \in Nat
    BY DEF Text
  <1>2. \A i \in 1..n : text[i] \in [indent : Nat, point : Points \cup {NoPoint}]
    <2> DEFINE Said == [indent : Nat, point : Points \cup {NoPoint}]
    <2>1. text \in Seq(Said)
      BY DEF Text
    <2> HIDE DEF Said
    <2>2. \A i \in 1..n : text[i] \in Said
      BY <2>1
    <2> QED BY <2>2 DEF Said
  <1>3. \A i \in 1..n : One(i) \in Line
    BY <1>2 DEF Line
  <1>4. Lines(k, text, indent) = [i \in 1..n |-> One(i)]
    BY <1>1 DEF Lines
  <1> HIDE DEF One, n
  <1>5. Lines(k, text, indent) \in Seq(Line) /\ Len(Lines(k, text, indent)) = n
    BY <1>1, <1>3, <1>4
  <1>6. \A i \in 1..n : Lines(k, text, indent)[i] = One(i)
    BY <1>4
  <1> QED BY <1>5, <1>6 DEF One, n

\* A file's lines stay in their places whatever else is opened and closed.
LEMMA FileStays ==
  ASSUME NEW lines, NEW ss, NEW cl, NEW tt, NEW dl, InFile(lines, ss, cl),
         \A j : Done(ss, cl, j) => Done(tt, dl, j) /\ tt[j].point = ss[j].point /\ tt[j].text = ss[j].text,
         \A i, j : Earlier(cl, i, j) => Earlier(dl, i, j)
  PROVE  InFile(lines, tt, dl)
  <1>1. \A i \in 1..Len(lines) : /\ Done(tt, dl, lines[i].of) /\ Aim(tt, lines[i]) = Aim(ss, lines[i])
                                  /\ tt[lines[i].of].text = ss[lines[i].of].text
    BY DEF InFile, Aim
  <1>2. InTurn(lines, tt, dl)
    BY <1>1 DEF InFile, InTurn
  <1>3. Above(lines, tt)
    BY <1>1 DEF InFile, Above
  <1> QED BY <1>1, <1>2, <1>3 DEF InFile

LEMMA EmptyInFile ==
  ASSUME NEW ss, NEW cl
  PROVE  InFile(<<>>, ss, cl)
  BY DEF InFile, OwnOrder, InTurn, Above

LEMMA NewFileKeeps ==
  ASSUME NEW k \in Nat, NEW text \in Text, NEW ss, NEW cl, Done(ss, cl, k), ss[k].point = NoPoint
  PROVE  /\ InFile(Lines(k, text, 0), ss, cl)
         /\ AllOf(Lines(k, text, 0), k, text)
  <1> DEFINE lines == Lines(k, text, 0)
  <1>1. /\ lines \in Seq(Line) /\ Len(lines) = Len(text) /\ Len(text) \in Nat /\ DOMAIN text = 1..Len(text)
        /\ \A i \in 1..Len(lines) : lines[i].of = k /\ lines[i].at = i
    <2>1. 0 \in Nat
      OBVIOUS
    <2>2. /\ lines \in Seq(Line) /\ Len(lines) = Len(text)
          /\ \A i \in 1..Len(text) : lines[i] = [of |-> k, at |-> i, indent |-> 0 + text[i].indent,
                                                 point |-> text[i].point]
      BY <2>1, LinesAre
    <2>3. Len(text) \in Nat /\ DOMAIN text = 1..Len(text)
      BY DEF Text
    <2> HIDE DEF lines
    <2>4. ASSUME NEW i \in 1..Len(lines) PROVE lines[i].of = k /\ lines[i].at = i
      <3>1. i \in 1..Len(text)
        BY <2>2
      <3>2. lines[i] = [of |-> k, at |-> i, indent |-> 0 + text[i].indent, point |-> text[i].point]
        BY <2>2, <3>1
      <3> QED BY <3>2
    <2> QED BY <2>2, <2>3, <2>4
  <1> HIDE DEF lines
  <1>2. OwnOrder(lines)
    BY <1>1 DEF OwnOrder
  <1>3. InTurn(lines, ss, cl) /\ Above(lines, ss)
    BY <1>1 DEF InTurn, Above, Aim
  <1>4. InFile(lines, ss, cl)
    BY <1>1, <1>2, <1>3 DEF InFile
  <1>5. AllOf(lines, k, text)
    BY <1>1 DEF AllOf
  <1> QED BY <1>4, <1>5 DEF lines

\* What a stream inserts where it may.
LEMMA InsertedKeeps ==
  ASSUME NEW lines, NEW k \in Nat, NEW s \in Stream, NEW ss, NEW cl, InFile(lines, ss, cl), Done(ss, cl, k),
         s.point # NoPoint, ss[k].point = s.point, ss[k].text = s.text,
         \E i \in DOMAIN lines : lines[i].point = s.point,
         \A i \in 1..Len(lines) : lines[i].of # k /\ Earlier(cl, lines[i].of, k)
  PROVE  /\ InFile(Inserted(lines, k, s), ss, cl)
         /\ AllOf(Inserted(lines, k, s), k, s.text)
         /\ \A j, text : AllOf(lines, j, text) => AllOf(Inserted(lines, k, s), j, text)
  <1> DEFINE m == FirstAt(lines, s.point)
             new == Lines(k, s.text, lines[m].indent)
  <1>1. lines \in Seq(Line) /\ s.text \in Text
    BY DEF InFile, Stream
  <1>2. m \in 1..Len(lines) /\ lines[m].point = s.point
    BY <1>1, FirstAtIs
  <1>3. lines[m] \in Line
    BY <1>1, <1>2
  <1>4. lines[m].indent \in Nat
    BY <1>3 DEF Line
  <1>5. Inserted(lines, k, s) = Spliced(lines, m, new)
    BY DEF Inserted, Place, Spliced
  <1> HIDE DEF m
  <1>6. /\ new \in Seq(Line) /\ Len(new) = Len(s.text)
        /\ \A i \in 1..Len(s.text) :
             new[i] = [of |-> k, at |-> i, indent |-> lines[m].indent + s.text[i].indent,
                       point |-> s.text[i].point]
    BY <1>1, <1>4, LinesAre
  <1> HIDE DEF new
  <1>7. \A i \in 1..Len(new) :
          new[i].of = k /\ new[i].at = i /\ new[i].indent = lines[m].indent + ss[k].text[i].indent
    <2> TAKE i \in 1..Len(new)
    <2>1. i \in 1..Len(s.text)
      BY <1>6
    <2>2. new[i] = [of |-> k, at |-> i, indent |-> lines[m].indent + s.text[i].indent, point |-> s.text[i].point]
      BY <1>6, <2>1
    <2> QED BY <2>2
  <1>8. /\ InFile(Spliced(lines, m, new), ss, cl)
        /\ \A i \in 1..Len(lines) :
             \E j \in 1..Len(Spliced(lines, m, new)) : Spliced(lines, m, new)[j] = lines[i]
        /\ \A i \in 1..Len(new) :
             \E j \in 1..Len(Spliced(lines, m, new)) : Spliced(lines, m, new)[j] = new[i]
    <2>1. new \in Seq(Line) /\ m \in 1..Len(lines)
      BY <1>2, <1>6
    <2>2. ss[k].point # NoPoint /\ lines[m].point = ss[k].point
      BY <1>2
    <2> QED BY <1>7, <2>1, <2>2, InsertKeeps
  <1>9. AllOf(Spliced(lines, m, new), k, s.text)
    <2>1. DOMAIN s.text = 1..Len(s.text)
      BY <1>1 DEF Text
    <2> QED BY <2>1, <1>6, <1>7, <1>8 DEF AllOf
  <1>10. \A j, text : AllOf(lines, j, text) => AllOf(Spliced(lines, m, new), j, text)
    BY <1>8 DEF AllOf
  <1> QED BY <1>5, <1>8, <1>9, <1>10

-----------------------------------------------------------------------------
(* Destroying a stream.                                                      *)

LEMMA DestroyFiles ==
  ASSUME PInv, closed \in Seq(Nat), InFiles, Kept, Nameless,
         NEW k \in DOMAIN streams, streams[k].open, Destroy(k, streams[k]),
         k \in DOMAIN streams', streams'[k] = [streams[k] EXCEPT !.open = FALSE],
         \A j \in DOMAIN streams : ~streams[j].open => j \in DOMAIN streams' /\ streams'[j] = streams[j],
         \A j \in DOMAIN streams' : ~streams'[j].open => j = k \/ (j \in DOMAIN streams /\ ~streams[j].open)
  PROVE  /\ closed' \in Seq(Nat) /\ InFiles' /\ Kept'
         /\ \A l \in Locations : files_'[l][NoName].slot # "file"
  <1> DEFINE s == streams[k]
             slot == files_[s.dir][s.name]
             new == IF Spoilt(slot, s) THEN IF slot.slot = "file" THEN slot ELSE Null
                    ELSE File(IF s.point = NoPoint THEN Lines(k, s.text, 0)
                              ELSE Inserted(slot.lines, k, s))
             cl == Append(closed, k)
  <1>1. k \in Nat /\ s \in Stream
    BY DEF PInv, Types
  <1>2. s.dir \in Locations /\ s.name \in Keys /\ s.text \in Text /\ s.open
    BY <1>1 DEF Stream
  <1>3. /\ files_' = [files_ EXCEPT ![s.dir][s.name] = new]
        /\ had_error_' = [had_error_ EXCEPT ![s.dir] = @ \/ Spoilt(slot, s)]
        /\ closed' = cl
    BY DEF Destroy
  <1>4. DOMAIN files_ = Locations /\ had_error_ \in [Locations -> BOOLEAN]
        /\ \A l \in Locations : DOMAIN files_[l] = Keys
    BY DEF PInv, Types
  <1>5. cl \in Seq(Nat) /\ DOMAIN cl = 1..(Len(closed) + 1) /\ DOMAIN closed = 1..Len(closed)
        /\ Len(closed) \in Nat /\ cl[Len(closed) + 1] = k
        /\ \A i \in DOMAIN closed : cl[i] = closed[i]
    BY <1>1
  <1>6. /\ streams'[k].dir = s.dir /\ streams'[k].name = s.name /\ streams'[k].text = s.text
        /\ streams'[k].point = s.point /\ ~streams'[k].open
    BY <1>1 DEF Stream
  <1> HIDE DEF s, slot, new, cl
  <1>7. \A l \in Locations, n \in Keys :
          files_'[l][n] = IF l = s.dir /\ n = s.name THEN new ELSE files_[l][n]
    BY <1>2, <1>3, <1>4
  <1>8. \A l \in Locations : had_error_'[l] <=> had_error_[l] \/ (l = s.dir /\ Spoilt(slot, s))
    BY <1>2, <1>3, <1>4
  <1>9. Done(streams', closed', k)
    <2>1. Len(closed) + 1 \in DOMAIN cl /\ cl[Len(closed) + 1] = k
      BY <1>5
    <2> QED BY <1>3, <1>6, <2>1 DEF Done
  <1>10. \A i, j : Earlier(closed, i, j) => Earlier(closed', i, j)
    BY <1>3, <1>5 DEF Earlier
  <1>11. ASSUME NEW j, Done(streams, closed, j)
         PROVE  /\ Done(streams', closed', j) /\ streams'[j].point = streams[j].point
                /\ streams'[j].text = streams[j].text /\ Earlier(closed', j, k) /\ j # k
    <2>1. j \in DOMAIN streams /\ ~streams[j].open /\ j # k
      BY <1>2, <1>11 DEF Done, s
    <2>2. j \in DOMAIN streams' /\ streams'[j] = streams[j]
      BY <2>1
    <2>3. PICK c \in DOMAIN closed : closed[c] = j
      BY <1>11 DEF Done
    <2>4. c \in DOMAIN cl /\ cl[c] = j /\ Len(closed) + 1 \in DOMAIN cl /\ c < Len(closed) + 1
      BY <1>5, <2>3
    <2> QED BY <1>3, <1>5, <2>1, <2>2, <2>4 DEF Done, Earlier
  <1>12. ASSUME NEW l \in Locations, NEW n \in Keys
         PROVE  InFile(files_[l][n].lines, streams', closed')
    <2>1. InFile(files_[l][n].lines, streams, closed)
      BY DEF InFiles
    <2> QED BY <1>10, <1>11, <2>1, FileStays
  <1>13. slot.slot = "file" /\ s.point = NoPoint => Spoilt(slot, s)
    BY DEF Spoilt
  <1>14. CASE Spoilt(slot, s)
    <2>1. new = slot \/ new = Null
      BY <1>14 DEF new
    <2>2. InFile(new.lines, streams', closed')
      BY <1>2, <1>12, <2>1, EmptyInFile DEF Null, slot
    <2>3. InFiles'
      BY <1>7, <1>12, <2>2 DEF InFiles
    <2>4. Kept'
      <3> SUFFICES ASSUME NEW j \in DOMAIN streams', ~streams'[j].open, ~had_error_'[streams'[j].dir]
                   PROVE  LET t == streams'[j] IN
                          /\ files_'[t.dir][t.name].slot = "file" /\ t.name \in Names
                          /\ AllOf(files_'[t.dir][t.name].lines, j, t.text)
        BY DEF Kept
      <3>1. j # k
        BY <1>2, <1>6, <1>8, <1>14
      <3>2. j \in DOMAIN streams /\ ~streams[j].open /\ streams'[j] = streams[j]
        BY <3>1
      <3>3. streams[j] \in Stream
        BY <3>2 DEF PInv, Types
      <3>4. streams[j].dir \in Locations /\ streams[j].name \in Keys
        BY <3>3 DEF Stream
      <3>5. streams[j].dir # s.dir /\ ~had_error_[streams[j].dir]
        BY <1>8, <1>14, <3>2, <3>4
      <3> QED BY <1>7, <3>2, <3>4, <3>5 DEF Kept
    <2>5. \A l \in Locations : files_'[l][NoName].slot # "file"
      BY <1>2, <1>7, <2>1 DEF Nameless, Null, Keys, slot
    <2> QED BY <1>3, <1>5, <2>3, <2>4, <2>5
  <1>15. CASE ~Spoilt(slot, s)
    <2>1. new = File(IF s.point = NoPoint THEN Lines(k, s.text, 0) ELSE Inserted(slot.lines, k, s))
      BY <1>15 DEF new
    <2>2. s.name \in Names
      <3>1. s.name # NoName
        <4> SUFFICES ASSUME s.name = NoName PROVE FALSE
          OBVIOUS
        <4>1. s.point # NoPoint /\ slot.slot # "file"
          BY <1>2 DEF Nameless, s, slot
        <4> QED BY <1>15, <4>1 DEF Spoilt
      <3> QED BY <1>2, <3>1 DEF Keys
    <2>3. /\ InFile(new.lines, streams', closed') /\ new.slot = "file"
          /\ AllOf(new.lines, k, s.text)
          /\ slot.slot = "file" => \A j, text : AllOf(slot.lines, j, text) => AllOf(new.lines, j, text)
      <3>1. CASE s.point = NoPoint
        <4>1. new.lines = Lines(k, s.text, 0) /\ new.slot = "file" /\ slot.slot # "file"
          BY <1>13, <1>15, <2>1, <3>1 DEF File
        <4>2. streams'[k].point = NoPoint
          BY <1>6, <3>1
        <4>3. InFile(Lines(k, s.text, 0), streams', closed') /\ AllOf(Lines(k, s.text, 0), k, s.text)
          BY <1>1, <1>2, <1>9, <4>2, NewFileKeeps
        <4> QED BY <4>1, <4>3
      <3>2. CASE s.point # NoPoint
        <4>1. new.lines = Inserted(slot.lines, k, s) /\ new.slot = "file"
          BY <2>1, <3>2 DEF File
        <4>2. \E i \in DOMAIN slot.lines : slot.lines[i].point = s.point
          BY <1>15, <3>2 DEF Spoilt
        <4>3. InFile(slot.lines, streams', closed') /\ InFile(slot.lines, streams, closed)
          BY <1>2, <1>12 DEF slot, InFiles
        <4>4. \A i \in 1..Len(slot.lines) :
                slot.lines[i].of # k /\ Earlier(closed', slot.lines[i].of, k)
          BY <1>11, <4>3 DEF InFile
        <4>5. streams'[k].point = s.point /\ streams'[k].text = s.text
          BY <1>6
        <4>6. /\ InFile(Inserted(slot.lines, k, s), streams', closed')
              /\ AllOf(Inserted(slot.lines, k, s), k, s.text)
              /\ \A j, text : AllOf(slot.lines, j, text) => AllOf(Inserted(slot.lines, k, s), j, text)
          BY <1>1, <1>9, <3>2, <4>2, <4>3, <4>4, <4>5, InsertedKeeps
        <4> QED BY <4>1, <4>6
      <3> QED BY <3>1, <3>2
    <2>4. InFiles'
      BY <1>7, <1>12, <2>3 DEF InFiles
    <2>5. Kept'
      <3> SUFFICES ASSUME NEW j \in DOMAIN streams', ~streams'[j].open, ~had_error_'[streams'[j].dir]
                   PROVE  LET t == streams'[j] IN
                          /\ files_'[t.dir][t.name].slot = "file" /\ t.name \in Names
                          /\ AllOf(files_'[t.dir][t.name].lines, j, t.text)
        BY DEF Kept
      <3>1. CASE j = k
        BY <1>2, <1>6, <1>7, <2>2, <2>3, <3>1
      <3>2. CASE j # k
        <4>1. j \in DOMAIN streams /\ ~streams[j].open /\ streams'[j] = streams[j]
          BY <3>2
        <4>2. streams[j] \in Stream
          BY <4>1 DEF PInv, Types
        <4>3. streams[j].dir \in Locations /\ streams[j].name \in Keys
          BY <4>2 DEF Stream
        <4>4. ~had_error_[streams[j].dir]
          BY <1>8, <4>1, <4>3
        <4> DEFINE f == files_[streams[j].dir][streams[j].name]
        <4>5. f.slot = "file" /\ streams[j].name \in Names /\ AllOf(f.lines, j, streams[j].text)
          BY <4>1, <4>4 DEF Kept
        <4>6. CASE streams[j].dir = s.dir /\ streams[j].name = s.name
          <5>1. f = slot
            BY <4>6 DEF slot
          <5>2. AllOf(new.lines, j, streams[j].text)
            BY <2>3, <4>5, <5>1
          <5>3. files_'[streams[j].dir][streams[j].name] = new
            BY <1>7, <4>3, <4>6
          <5> QED BY <2>3, <4>1, <4>5, <5>2, <5>3
        <4>7. CASE ~(streams[j].dir = s.dir /\ streams[j].name = s.name)
          BY <1>7, <4>1, <4>3, <4>5, <4>7
        <4> QED BY <4>6, <4>7
      <3> QED BY <3>1, <3>2
    <2>6. \A l \in Locations : files_'[l][NoName].slot # "file"
      BY <1>7, <2>2, ProtocAssumption DEF Nameless, Keys
    <2> QED BY <1>3, <1>5, <2>4, <2>5, <2>6
  <1> QED BY <1>14, <1>15

-----------------------------------------------------------------------------
(* The steps.                                                                *)

LEMMA GrowKeeps ==
  ASSUME InFiles, Kept, UNCHANGED <<files_, closed, had_error_>>,
         \A j \in DOMAIN streams : ~streams[j].open => j \in DOMAIN streams' /\ streams'[j] = streams[j],
         \A j \in DOMAIN streams' : ~streams'[j].open => j \in DOMAIN streams /\ ~streams[j].open
  PROVE  InFiles' /\ Kept'
  <1>1. ASSUME NEW l \in Locations, NEW n \in Keys
        PROVE  InFile(files_[l][n].lines, streams', closed)
    <2>1. InFile(files_[l][n].lines, streams, closed)
      BY DEF InFiles
    <2>2. \A j : Done(streams, closed, j) =>
            /\ Done(streams', closed, j)
            /\ streams'[j].point = streams[j].point /\ streams'[j].text = streams[j].text
      BY DEF Done
    <2> QED BY <2>1, <2>2, FileStays
  <1>2. InFiles'
    BY <1>1 DEF InFiles
  <1>3. Kept'
    BY DEF Kept
  <1> QED BY <1>2, <1>3

\* What is said of lines and of what was written stays when nothing of it changes.
LEMMA RestKeeps ==
  ASSUME LInv, UNCHANGED <<streams, closed, files_, had_error_>>
  PROVE  closed' \in Seq(Nat) /\ InFiles' /\ Kept' /\ Nameless'
  BY DEF LInv, InFiles, Kept, Nameless

LEMMA NothingWrittenYet ==
  ASSUME PInv, phase = "generate", UNCHANGED writing
  PROVE  WrittenOut'
  BY DEF PInv, Order, WrittenOut, writing

LEMMA NoneCurrent ==
  ASSUME LInv, Running(FALSE) \/ phase # "generate" \/ directive > Len(Directives)
  PROVE  current_output = 0
  <1>1. Len(Directives) \in Nat /\ directive \in Nat
    BY ProtocAssumption DEF LInv, PInv, Types
  <1> QED BY <1>1 DEF LInv, Hands, Running

LEMMA OpenLines ==
  ASSUME LInv, Open
  PROVE  LInv'
  <1>1. PICK n \in Names, p \in Points \cup {NoPoint}, t \in Texts :
          streams' = Append(streams, NewStream(n, p, t))
    BY DEF Open
  <1> DEFINE s == NewStream(n, p, t)
  <1>2. /\ Running(FALSE)
        /\ UNCHANGED <<phase, directive, closed, current_output, files_, had_error_, writing>>
    BY DEF Open
  <1>3. streams \in Seq(Stream) /\ PInv
    BY DEF LInv, PInv, Types
  <1>4. s \in Stream /\ s.open /\ s.name # NoName
    <2>1. n \in Keys
      BY DEF Keys
    <2>2. s \in Stream
      BY <1>2, <1>3, <2>1, NewIsStream
    <2> QED BY <2>2, ProtocAssumption DEF NewStream
  <1> HIDE DEF s
  <1>5. /\ DOMAIN streams' = 1..(Len(streams) + 1) /\ DOMAIN streams = 1..Len(streams)
        /\ Len(streams) \in Nat /\ streams'[Len(streams) + 1] = s
        /\ \A j \in DOMAIN streams : streams'[j] = streams[j]
    BY <1>1, <1>3, <1>4 DEF s
  <1>6. \A j \in DOMAIN streams' : j \in DOMAIN streams \/ (j = Len(streams) + 1 /\ streams'[j] = s)
    BY <1>5
  <1>7. InFiles' /\ Kept'
    BY <1>2, <1>4, <1>5, <1>6, GrowKeeps DEF LInv
  <1>8. Nameless'
    BY <1>2, <1>4, <1>5, <1>6 DEF LInv, Nameless
  <1>9. current_output = 0
    BY <1>2, NoneCurrent
  <1>10. Hands'
    BY <1>2, <1>9 DEF Hands, Running, Now
  <1>11. PInv' /\ WrittenOut'
    BY <1>2, <1>3, OpenStep, NothingWrittenYet DEF Running
  <1> QED BY <1>2, <1>7, <1>8, <1>10, <1>11 DEF LInv

LEMMA CloseLines ==
  ASSUME LInv, CloseStream
  PROVE  LInv'
  <1>1. PICK k \in DOMAIN streams :
          /\ streams[k].open /\ Destroy(k, streams[k])
          /\ streams' = [streams EXCEPT ![k].open = FALSE]
    BY DEF CloseStream
  <1>2. Running(FALSE) /\ UNCHANGED <<phase, directive, current_output, writing>>
    BY DEF CloseStream
  <1>3. streams \in Seq(Stream) /\ PInv /\ DOMAIN streams = 1..Len(streams)
    BY DEF LInv, PInv, Types
  <1>4. /\ DOMAIN streams' = DOMAIN streams /\ streams'[k] = [streams[k] EXCEPT !.open = FALSE]
        /\ \A j \in DOMAIN streams : j # k => streams'[j] = streams[j]
    BY <1>1, <1>3
  <1>5. streams[k] \in Stream
    BY <1>1, <1>3
  <1>6. streams'[k].name = streams[k].name /\ streams'[k].point = streams[k].point /\ ~streams'[k].open
    BY <1>4, <1>5 DEF Stream
  <1>7. /\ closed' \in Seq(Nat) /\ InFiles' /\ Kept'
        /\ \A l \in Locations : files_'[l][NoName].slot # "file"
    BY <1>1, <1>3, <1>4, <1>6, DestroyFiles DEF LInv
  <1>8. Nameless'
    BY <1>4, <1>6, <1>7 DEF LInv, Nameless
  <1>9. current_output = 0
    BY <1>2, NoneCurrent
  <1>10. Hands'
    BY <1>2, <1>4, <1>9 DEF LInv, Hands, Running, Now
  <1>11. PInv' /\ WrittenOut'
    BY <1>2, <1>3, CloseStep, NothingWrittenYet DEF Running
  <1> QED BY <1>7, <1>8, <1>10, <1>11 DEF LInv

LEMMA ReturnLines ==
  ASSUME LInv, GeneratorReturns
  PROVE  LInv'
  <1>1. /\ Running(FALSE) /\ \A k \in DOMAIN streams : ~streams[k].open
        /\ UNCHANGED <<streams, closed, current_output, files_, had_error_, writing>>
    BY DEF GeneratorReturns
  <1>2. current_output = 0
    BY <1>1, NoneCurrent
  <1>3. Hands'
    BY <1>1, <1>2 DEF Hands
  <1>4. PInv' /\ WrittenOut'
    BY <1>1, ReturnStep, NothingWrittenYet DEF Running, LInv
  <1> QED BY <1>1, <1>3, <1>4, RestKeeps DEF LInv

\* current_output.reset(), with or without a stream that is opened.
LEMMA ResetLines ==
  ASSUME LInv, NEW ss \in Seq(Stream), ResetCurrent(ss),
         \A j \in DOMAIN streams : j \in DOMAIN ss /\ ss[j] = streams[j],
         \A j \in DOMAIN ss : j \in DOMAIN streams \/ ss[j].open
  PROVE  /\ closed' \in Seq(Nat) /\ InFiles' /\ Kept'
         /\ \A l \in Locations : files_'[l][NoName].slot # "file"
         /\ DOMAIN streams' = DOMAIN ss
         /\ \A j \in DOMAIN ss :
              /\ streams'[j].name = ss[j].name /\ streams'[j].point = ss[j].point
              /\ streams'[j].open => ss[j].open /\ j # current_output
              /\ j # current_output => streams'[j] = ss[j]
  <1>1. streams \in Seq(Stream) /\ DOMAIN streams = 1..Len(streams) /\ DOMAIN ss = 1..Len(ss)
        /\ current_output \in 0..Len(streams)
    BY DEF LInv, PInv, Types
  <1>2. CASE current_output = 0
    <2>1. streams' = ss /\ UNCHANGED <<closed, files_, had_error_>>
      BY <1>2 DEF ResetCurrent
    <2>2. InFiles' /\ Kept'
      BY <2>1, GrowKeeps DEF LInv
    <2>3. \A j \in DOMAIN ss : j # current_output
      BY <1>1, <1>2
    <2> QED BY <2>1, <2>2, <2>3 DEF LInv, Nameless
  <1>3. CASE current_output # 0
    <2> DEFINE k == current_output
    <2>1. k \in DOMAIN streams /\ k \in DOMAIN ss /\ streams[k].open
      BY <1>1, <1>3 DEF LInv, Hands
    <2>2. streams' = [ss EXCEPT ![k].open = FALSE] /\ Destroy(k, streams[k])
      BY <1>3 DEF ResetCurrent
    <2> HIDE DEF k
    <2>3. /\ DOMAIN streams' = DOMAIN ss /\ streams'[k] = [streams[k] EXCEPT !.open = FALSE]
          /\ \A j \in DOMAIN ss : j # k => streams'[j] = ss[j]
      BY <2>1, <2>2
    <2>4. streams[k] \in Stream /\ ss[k] = streams[k]
      BY <1>1, <2>1
    <2>5. /\ streams'[k].name = ss[k].name /\ streams'[k].point = ss[k].point
          /\ ~streams'[k].open
      BY <2>3, <2>4 DEF Stream
    <2>6. /\ closed' \in Seq(Nat) /\ InFiles' /\ Kept'
          /\ \A l \in Locations : files_'[l][NoName].slot # "file"
      <3>1. \A j \in DOMAIN streams : ~streams[j].open => j \in DOMAIN streams' /\ streams'[j] = streams[j]
        BY <2>1, <2>3
      <3>2. \A j \in DOMAIN streams' : ~streams'[j].open => j = k \/ (j \in DOMAIN streams /\ ~streams[j].open)
        BY <2>3
      <3> QED BY <2>1, <2>2, <2>3, <3>1, <3>2, DestroyFiles DEF LInv
    <2> QED BY <2>3, <2>5, <2>6 DEF k
  <1> QED BY <1>2, <1>3

LEMMA ChunkOpensLines ==
  ASSUME LInv, ChunkOpens
  PROVE  LInv'
  <1>1. PICK n \in Keys, p \in Points \cup {NoPoint}, t \in Texts :
          (n # NoName \/ p # NoPoint) /\ ResetCurrent(Append(streams, NewStream(n, p, t)))
    BY DEF ChunkOpens, Keys
  <1> DEFINE s == NewStream(n, p, t)  ss == Append(streams, s)
  <1>2. /\ Running(TRUE) /\ current_output' = Len(streams) + 1
        /\ UNCHANGED <<phase, directive, writing>>
    BY DEF ChunkOpens
  <1>3. streams \in Seq(Stream) /\ PInv
    BY DEF LInv, PInv, Types
  <1>4. s \in Stream /\ s.open /\ (s.name = NoName => s.point # NoPoint)
    <2>1. s \in Stream
      BY <1>2, <1>3, NewIsStream
    <2> QED BY <1>1, <2>1 DEF NewStream
  <1> HIDE DEF s
  <1>5. /\ ss \in Seq(Stream) /\ DOMAIN ss = 1..(Len(streams) + 1) /\ DOMAIN streams = 1..Len(streams)
        /\ Len(streams) \in Nat /\ ss[Len(streams) + 1] = s
        /\ \A j \in DOMAIN streams : ss[j] = streams[j]
    BY <1>3, <1>4
  <1>6. ResetCurrent(ss)
    BY <1>1 DEF s
  <1> HIDE DEF ss
  <1>7. /\ \A j \in DOMAIN streams : j \in DOMAIN ss /\ ss[j] = streams[j]
        /\ \A j \in DOMAIN ss : j \in DOMAIN streams \/ (j = Len(streams) + 1 /\ ss[j].open)
    BY <1>4, <1>5
  <1>8. /\ closed' \in Seq(Nat) /\ InFiles' /\ Kept'
        /\ \A l \in Locations : files_'[l][NoName].slot # "file"
        /\ DOMAIN streams' = DOMAIN ss
        /\ \A j \in DOMAIN ss :
             /\ streams'[j].name = ss[j].name /\ streams'[j].point = ss[j].point
             /\ streams'[j].open => ss[j].open /\ j # current_output
             /\ j # current_output => streams'[j] = ss[j]
    BY <1>5, <1>6, <1>7, ResetLines
  <1>9. Nameless'
    <2> SUFFICES ASSUME NEW j \in DOMAIN ss, ss[j].name = NoName PROVE ss[j].point # NoPoint
      BY <1>8 DEF Nameless
    <2> QED BY <1>4, <1>5, <1>7 DEF LInv, Nameless
  <1>10. Hands'
    <2>1. Now.plugin = TRUE /\ phase = "generate" /\ directive <= Len(Directives)
      BY <1>2 DEF Running
    <2>2. current_output \in 0..Len(streams)
      BY DEF LInv, PInv, Types
    <2>3. Len(streams) + 1 \in DOMAIN ss /\ Len(streams) + 1 # current_output
      BY <1>5, <2>2
    <2>4. streams'[Len(streams) + 1].open
      BY <1>4, <1>5, <1>8, <2>3
    <2>5. \A j \in DOMAIN streams' : streams'[j].open => j = Len(streams) + 1
      BY <1>5, <1>7, <1>8, <2>1 DEF LInv, Hands
    <2> QED BY <1>2, <2>1, <2>4, <2>5 DEF Hands, Running, Now
  <1>11. PInv' /\ WrittenOut'
    BY <1>2, <1>3, ChunkOpensStep, NothingWrittenYet DEF Running
  <1> QED BY <1>8, <1>9, <1>10, <1>11 DEF LInv

LEMMA ChunkGoesOnLines ==
  ASSUME LInv, ChunkGoesOn
  PROVE  LInv'
  <1>1. PICK t \in Texts : streams' = [streams EXCEPT ![current_output].text = @ \o t]
    BY DEF ChunkGoesOn
  <1>2. /\ Running(TRUE) /\ current_output # 0
        /\ UNCHANGED <<phase, directive, closed, current_output, files_, had_error_, writing>>
    BY DEF ChunkGoesOn
  <1>3. streams \in Seq(Stream) /\ PInv /\ current_output \in DOMAIN streams
    BY <1>2 DEF LInv, PInv, Types
  <1>4. streams[current_output] \in Stream /\ streams[current_output].open
    BY <1>2, <1>3 DEF LInv, Hands
  <1> DEFINE s == streams[current_output]
             longer == [s EXCEPT !.text = @ \o t]
  <1>5. longer.open /\ longer.name = s.name /\ longer.point = s.point
    BY <1>4 DEF Stream
  <1>6. streams' = [streams EXCEPT ![current_output] = longer]
    BY <1>1, <1>3
  <1> HIDE DEF longer
  <1>7. /\ DOMAIN streams' = DOMAIN streams /\ streams'[current_output] = longer
        /\ \A j \in DOMAIN streams : j # current_output => streams'[j] = streams[j]
    BY <1>3, <1>6
  <1>8. InFiles' /\ Kept'
    <2>1. \A j \in DOMAIN streams : ~streams[j].open => j \in DOMAIN streams' /\ streams'[j] = streams[j]
      BY <1>4, <1>7
    <2>2. \A j \in DOMAIN streams' : ~streams'[j].open => j \in DOMAIN streams /\ ~streams[j].open
      BY <1>5, <1>7
    <2> QED BY <1>2, <2>1, <2>2, GrowKeeps DEF LInv
  <1>9. Nameless'
    BY <1>2, <1>3, <1>5, <1>7 DEF LInv, Nameless
  <1>10. Hands'
    <2>1. Now.plugin = TRUE /\ phase = "generate" /\ directive <= Len(Directives)
      BY <1>2 DEF Running
    <2>2. \A j \in DOMAIN streams' : streams'[j].open => j = current_output
      BY <1>7, <2>1 DEF LInv, Hands
    <2> QED BY <1>2, <1>5, <1>7, <2>1, <2>2 DEF Hands, Running, Now
  <1>11. PInv' /\ WrittenOut'
    BY <1>2, <1>3, ChunkGoesOnStep, NothingWrittenYet DEF Running
  <1> QED BY <1>2, <1>8, <1>9, <1>10, <1>11 DEF LInv

LEMMA PluginReturnsLines ==
  ASSUME LInv, PluginReturns
  PROVE  LInv'
  <1>1. Running(TRUE) /\ ResetCurrent(streams) /\ current_output' = 0 /\ UNCHANGED writing
    BY DEF PluginReturns
  <1>2. streams \in Seq(Stream) /\ PInv
    BY DEF LInv, PInv, Types
  <1>3. /\ closed' \in Seq(Nat) /\ InFiles' /\ Kept'
        /\ \A l \in Locations : files_'[l][NoName].slot # "file"
        /\ DOMAIN streams' = DOMAIN streams
        /\ \A j \in DOMAIN streams :
             /\ streams'[j].name = streams[j].name /\ streams'[j].point = streams[j].point
             /\ streams'[j].open => streams[j].open /\ j # current_output
             /\ j # current_output => streams'[j] = streams[j]
    BY <1>1, <1>2, ResetLines
  <1>4. Nameless'
    BY <1>3 DEF LInv, Nameless
  <1>5. \A j \in DOMAIN streams' : ~streams'[j].open
    BY <1>1, <1>3 DEF LInv, Hands, Running
  <1>6. Hands'
    BY <1>1, <1>5 DEF Hands
  <1>7. PInv' /\ WrittenOut'
    BY <1>1, <1>2, PluginReturnsStep, NothingWrittenYet DEF Running
  <1> QED BY <1>3, <1>4, <1>6, <1>7 DEF LInv

\* When nothing is generated, no stream is open.
LEMMA AllShut ==
  ASSUME LInv, phase # "generate" \/ directive > Len(Directives), UNCHANGED <<streams, current_output>>
  PROVE  Hands'
  <1>1. Len(Directives) \in Nat /\ directive \in Nat
    BY ProtocAssumption DEF LInv, PInv, Types
  <1>2. current_output = 0 /\ \A j \in DOMAIN streams : ~streams[j].open
    <2>1. current_output = 0
      BY NoneCurrent
    <2>2. ~(phase = "generate" /\ directive <= Len(Directives))
      BY <1>1
    <2>3. \A j \in DOMAIN streams : ~streams[j].open
      BY <2>2 DEF LInv, Hands
    <2> QED BY <2>1, <2>3
  <1> QED BY <1>2 DEF Hands

LEMMA ImportLines ==
  ASSUME LInv, Import
  PROVE  LInv'
  <1>1. phase = "import" /\ UNCHANGED <<generating, writing>>
    BY DEF Import
  <1>2. WrittenOut'
    BY <1>1 DEF LInv, WrittenOut, generating, writing
  <1>3. PInv'
    BY ImportStep DEF LInv
  <1> QED BY <1>1, <1>2, <1>3, RestKeeps, AllShut DEF LInv, generating

LEMMA StartLines ==
  ASSUME LInv, StartWriting
  PROVE  LInv'
  <1>1. phase = "generate" /\ directive > Len(Directives) /\ UNCHANGED <<generating, writing>>
    BY DEF StartWriting
  <1>2. WrittenOut'
    BY <1>1 DEF LInv, WrittenOut, generating, writing
  <1>3. PInv'
    BY StartStep DEF LInv
  <1> QED BY <1>1, <1>2, <1>3, RestKeeps, AllShut DEF LInv, generating

LEMMA SetLines ==
  ASSUME LInv, WriteDescriptorSet
  PROVE  LInv'
  <1>1. phase = "write" /\ UNCHANGED <<generating, pending, disk, zipBroke>>
    BY DEF WriteDescriptorSet
  <1>2. WrittenOut'
    BY <1>1 DEF LInv, WrittenOut, generating
  <1>3. PInv'
    BY SetStep DEF LInv
  <1> QED BY <1>1, <1>2, <1>3, RestKeeps, AllShut DEF LInv, generating

LEMMA DiskLines ==
  ASSUME LInv, NEW l \in Locations, WriteAllToDisk(l)
  PROVE  LInv'
  <1>1. phase = "write" /\ l \in pending /\ UNCHANGED <<generating, zipBroke>>
    BY DEF WriteAllToDisk
  <1>2. disk \in [Locations -> [Names -> {"old", "partial", "whole"}]]
    BY DEF LInv, PInv, Types
  <1>3. WrittenOut'
    <2>1. CASE /\ disk' = [disk EXCEPT ![l] = [n \in Names |-> IF Present(l, n) THEN "whole" ELSE @[n]]]
               /\ pending' = pending \ {l}
      <3>1. \A m \in Locations \ {l} : disk'[m] = disk[m]
        BY <1>2, <2>1
      <3>2. \A n \in Names : Present(l, n) => disk'[l][n] = "whole"
        BY <1>2, <2>1
      <3> QED BY <1>1, <2>1, <3>1, <3>2 DEF LInv, WrittenOut, Present, generating
    <2>2. CASE pending' = pending /\ \A m \in Locations \ pending : disk'[m] = disk[m]
      BY <1>1, <2>2 DEF LInv, WrittenOut, generating
    <2>3. ASSUME NEW k, NEW what, disk' = [disk EXCEPT ![l] = Written(l, k, what)]
          PROVE  \A m \in Locations \ pending : disk'[m] = disk[m]
      BY <1>1, <1>2, <2>3
    <2> QED BY <2>1, <2>2, <2>3 DEF WriteAllToDisk
  <1>4. PInv'
    BY DiskStep DEF LInv
  <1> QED BY <1>1, <1>3, <1>4, RestKeeps, AllShut DEF LInv, generating

LEMMA ZipLines ==
  ASSUME LInv, NEW l \in Locations, WriteAllToZip(l)
  PROVE  LInv'
  <1>1. /\ phase = "write" /\ l \in pending
        /\ files_' = IF l \in Jars THEN [files_ EXCEPT ![l] = WithManifest(@)] ELSE files_
        /\ UNCHANGED <<directive, streams, closed, current_output, had_error_>>
    BY DEF WriteAllToZip
  <1>2. /\ DOMAIN files_ = Locations /\ \A m \in Locations : DOMAIN files_[m] = Keys
        /\ disk \in [Locations -> [Names -> {"old", "partial", "whole"}]]
    BY DEF LInv, PInv, Types
  <1>3. Manifest \in Keys /\ Manifest # NoName
    BY ProtocAssumption DEF Keys
  <1>4. /\ \A m \in Locations \ {l} : files_'[m] = files_[m]
        /\ files_'[l] \in {files_[l], WithManifest(files_[l])}
    BY <1>1, <1>2
  <1>5. \A n \in Keys :
          \/ WithManifest(files_[l])[n] = files_[l][n]
          \/ n = Manifest /\ files_[l][n].slot # "file" /\ WithManifest(files_[l])[n] = File(<<>>)
    BY <1>2, <1>3 DEF WithManifest
  <1> HIDE DEF WithManifest
  <1>6. \A m \in Locations, n \in Keys :
          \/ files_'[m][n] = files_[m][n]
          \/ m = l /\ n # NoName /\ files_[m][n].slot # "file" /\ files_'[m][n] = File(<<>>)
    BY <1>3, <1>4, <1>5
  <1>7. InFiles'
    <2> SUFFICES ASSUME NEW m \in Locations, NEW n \in Keys
                 PROVE  InFile(files_'[m][n].lines, streams, closed)
      BY <1>1 DEF InFiles
    <2> QED BY <1>6, EmptyInFile DEF LInv, InFiles, File
  <1>8. Kept'
    <2> SUFFICES ASSUME NEW k \in DOMAIN streams, ~streams[k].open, ~had_error_[streams[k].dir]
                 PROVE  LET s == streams[k] IN
                        /\ files_'[s.dir][s.name].slot = "file" /\ s.name \in Names
                        /\ AllOf(files_'[s.dir][s.name].lines, k, s.text)
      BY <1>1 DEF Kept
    <2>1. streams[k] \in Stream
      BY DEF LInv, PInv, Types
    <2>2. streams[k].dir \in Locations /\ streams[k].name \in Keys
      BY <2>1 DEF Stream
    <2> QED BY <1>6, <2>2 DEF LInv, Kept
  <1>9. Nameless'
    <2>1. NoName \in Keys
      BY DEF Keys
    <2> QED BY <1>1, <1>6, <2>1 DEF LInv, Nameless
  <1>10. WrittenOut'
    <2>1. \A m \in Locations \ pending : files_'[m] = files_[m]
      BY <1>1, <1>4
    <2>2. CASE UNCHANGED <<pending, disk, zipBroke>>
      BY <2>1, <2>2 DEF LInv, WrittenOut
    <2>3. ASSUME NEW whole \in BOOLEAN, pending' = pending \ {l}, zipBroke' = (zipBroke \/ ~whole),
                 disk' = [disk EXCEPT ![l] = [n \in Names |-> IF files_'[l][n].slot = "absent" THEN @[n]
                                                              ELSE IF whole THEN "whole" ELSE "partial"]]
          PROVE  WrittenOut'
      <3>1. \A m \in Locations \ {l} : disk'[m] = disk[m]
        BY <1>2, <2>3
      <3>2. whole => \A n \in Names : files_'[l][n].slot # "absent" => disk'[l][n] = "whole"
        BY <1>2, <2>3
      <3>3. zipBroke \/ ~whole => zipBroke'
        BY <2>3
      <3> QED BY <1>1, <2>1, <2>3, <3>1, <3>2, <3>3 DEF LInv, WrittenOut
    <2> QED BY <2>2, <2>3 DEF WriteAllToZip
  <1>11. PInv'
    BY ZipStep DEF LInv
  <1>12. Hands'
    BY <1>1, AllShut
  <1> QED BY <1>1, <1>7, <1>8, <1>9, <1>10, <1>11, <1>12 DEF LInv

LEMMA InitLines == Init => LInv
  <1> SUFFICES ASSUME Init PROVE LInv
    OBVIOUS
  <1>1. /\ streams = <<>> /\ closed = <<>> /\ current_output = 0 /\ pending = Locations
        /\ DOMAIN streams = {}
    BY DEF Init
  <1>2. \A l \in Locations, n \in Keys : files_[l][n] = Absent
    BY DEF Init, Keys
  <1>3. InFiles
    BY <1>2, EmptyInFile DEF InFiles, Absent
  <1>4. Kept /\ Hands /\ WrittenOut
    BY <1>1 DEF Kept, Hands, WrittenOut
  <1>5. Nameless
    BY <1>1, <1>2 DEF Nameless, Absent, Keys
  <1>6. closed \in Seq(Nat)
    BY <1>1
  <1> QED BY <1>3, <1>4, <1>5, <1>6, InitHolds DEF LInv

LEMMA NextLines == LInv /\ [Next]_vars => LInv'
  <1> SUFFICES ASSUME LInv, [Next]_vars PROVE LInv'
    OBVIOUS
  <1>1. CASE UNCHANGED vars
    <2>1. PInv'
      BY <1>1, NextHolds DEF LInv
    <2>2. UNCHANGED <<streams, closed, files_, had_error_, current_output, phase, directive, pending, disk, zipBroke>>
      BY <1>1 DEF vars, generating, writing
    <2>3. Hands' /\ WrittenOut'
      BY <2>2 DEF LInv, Hands, WrittenOut, Running, Now
    <2> QED BY <2>1, <2>2, <2>3, RestKeeps DEF LInv
  <1>2. ASSUME NEW l \in Locations, WriteAllToDisk(l) \/ WriteAllToZip(l) PROVE LInv'
    BY <1>2, DiskLines, ZipLines
  <1> QED BY <1>1, <1>2, ImportLines, OpenLines, CloseLines, ReturnLines, ChunkOpensLines,
             ChunkGoesOnLines, PluginReturnsLines, StartLines, SetLines DEF Next

\* Every line that was generated and not given up for an error is in its file, in its place.
THEOREM LinesInvariance == Spec => []LInv
  BY InitLines, NextLines, PTL DEF Spec

LEMMA OneOf ==
  ASSUME NEW S, NEW x \in S, \A y \in S : y = x
  PROVE  Cardinality(S) = 1
  <1>1. S = {x}
    OBVIOUS
  <1> QED BY <1>1, FS_Singleton

LEMMA OnceIsUnique ==
  ASSUME NEW lines \in Seq(Line), NEW p, Cardinality({i \in DOMAIN lines : lines[i].point = p}) = 1
  PROVE  Unique(lines, p)
  <1> DEFINE S == {i \in DOMAIN lines : lines[i].point = p}
  <1>1. DOMAIN lines = 1..Len(lines) /\ Len(lines) \in Nat /\ 1 \in Int /\ Len(lines) \in Int
    OBVIOUS
  <1>2. IsFiniteSet(1..Len(lines))
    BY <1>1, FS_Interval
  <1>3. S \subseteq 1..Len(lines)
    BY <1>1
  <1>4. IsFiniteSet(S)
    BY <1>2, <1>3, FS_Subset
  <1>5. PICK x : S = {x}
    <2> HIDE DEF S
    <2>1. Cardinality(S) = 1
      BY DEF S
    <2> QED BY <1>4, <2>1, FS_Singleton
  <1>6. \A i \in 1..Len(lines) : lines[i].point = p => i = x
    BY <1>1, <1>5
  <1> QED BY <1>6 DEF Unique

\* When protoc returns 0, all that its generators wrote is in its files, each line
\* once, and the files are written, whatever was inserted into them later.
THEOREM SuccessesAreWritten == Spec => []SuccessIsWritten
  <1>1. LInv => SuccessIsWritten
    <2> SUFFICES ASSUME LInv, status = 0, NEW k \in DOMAIN streams
                 PROVE  LET s == streams[k]
                            lines == files_[s.dir][s.name].lines
                        IN /\ \A i \in DOMAIN s.text :
                                Cardinality({j \in DOMAIN lines : lines[j].of = k /\ lines[j].at = i}) = 1
                           /\ disk[s.dir][s.name] = "whole" \/ zipBroke
      BY DEF SuccessIsWritten
    <2> DEFINE s == streams[k]
               lines == files_[s.dir][s.name].lines
    <2>1. phase = "exit" /\ pending = {}
      BY DEF LInv, PInv, Order
    <2>2. ~s.open
      BY <2>1 DEF LInv, Hands
    <2>3. s \in Stream
      BY DEF LInv, PInv, Types
    <2>4. s.dir \in Locations /\ s.name \in Keys
      BY <2>3 DEF Stream
    <2>5. ~had_error_[s.dir]
      BY <2>1, <2>4 DEF LInv, PInv, Order
    <2>6. files_[s.dir][s.name].slot = "file" /\ s.name \in Names /\ AllOf(lines, k, s.text)
      BY <2>2, <2>5 DEF LInv, Kept
    <2>7. disk[s.dir][s.name] = "whole" \/ zipBroke
      BY <2>1, <2>4, <2>6 DEF LInv, WrittenOut
    <2>8. lines \in Seq(Line) /\ OwnOrder(lines)
      BY <2>4 DEF LInv, InFiles, InFile
    <2> HIDE DEF lines
    <2>9. ASSUME NEW i \in DOMAIN s.text
          PROVE  Cardinality({j \in DOMAIN lines : lines[j].of = k /\ lines[j].at = i}) = 1
      <3> DEFINE S == {j \in DOMAIN lines : lines[j].of = k /\ lines[j].at = i}
      <3>1. DOMAIN lines = 1..Len(lines) /\ \A j \in 1..Len(lines) : lines[j] \in Line
        BY <2>8
      <3>2. PICK x \in 1..Len(lines) : lines[x].of = k /\ lines[x].at = i
        BY <2>6, <2>9 DEF AllOf
      <3>3. x \in S
        BY <3>1, <3>2
      <3>4. \A y \in S : y = x
        <4> SUFFICES ASSUME NEW y \in S PROVE y = x
          OBVIOUS
        <4>1. y \in 1..Len(lines) /\ lines[y].of = k /\ lines[y].at = i
          BY <3>1
        <4>2. lines[x].at \in Nat
          BY <3>1, <3>2 DEF Line
        <4>3. ~(x < y) /\ ~(y < x)
          BY <2>8, <3>2, <4>1, <4>2 DEF OwnOrder
        <4>4. x \in Nat /\ y \in Nat
          BY <4>1
        <4> QED BY <4>3, <4>4
      <3> HIDE DEF S
      <3>5. Cardinality(S) = 1
        BY <3>3, <3>4, OneOf
      <3> QED BY <3>5 DEF S
    <2> QED BY <2>7, <2>9 DEF lines
  <1> QED BY <1>1, LinesInvariance, PTL

\* Whatever is inserted, by however many streams and at points that themselves were
\* inserted: it stands above the line with the point, indented like it, in the order
\* in which it came.
THEOREM InsertsInPlace == Spec => []InsertedInPlace
  <1>1. LInv => InsertedInPlace
    <2> SUFFICES ASSUME LInv, NEW l \in Locations, NEW n \in Names
                 PROVE
                   LET lines == files_[l][n].lines
                       PointOf(i) == streams[lines[i].of].point
                       Once(p) == Cardinality({i \in DOMAIN lines : lines[i].point = p}) = 1
                       Before(k, m) == \E i, j \in DOMAIN closed : i < j /\ closed[i] = k /\ closed[j] = m
                   IN /\ \A i, j \in DOMAIN lines : i < j =>
                           /\ lines[i].of = lines[j].of => lines[i].at < lines[j].at
                           /\ (/\ lines[i].of # lines[j].of
                               /\ PointOf(i) = PointOf(j) /\ PointOf(i) # NoPoint /\ Once(PointOf(i)))
                              => Before(lines[i].of, lines[j].of)
                      /\ \A i \in DOMAIN lines : PointOf(i) # NoPoint /\ Once(PointOf(i)) =>
                           \E j \in (i + 1)..Len(lines) :
                             /\ lines[j].point = PointOf(i)
                             /\ lines[i].indent =
                                  lines[j].indent + streams[lines[i].of].text[lines[i].at].indent
      BY DEF InsertedInPlace
    <2> DEFINE lines == files_[l][n].lines
               Once(p) == Cardinality({i \in DOMAIN lines : lines[i].point = p}) = 1
    <2>1. InFile(lines, streams, closed)
      BY DEF LInv, InFiles, Keys
    <2>2. lines \in Seq(Line) /\ DOMAIN lines = 1..Len(lines) /\ Len(lines) \in Nat
      BY <2>1 DEF InFile
    <2> HIDE DEF lines
    <2>3. \A p : Once(p) => Unique(lines, p)
      BY <2>2, OnceIsUnique
    <2> HIDE DEF Once
    <2>4. \A i, j \in DOMAIN lines : i < j =>
            /\ lines[i].of = lines[j].of => lines[i].at < lines[j].at
            /\ (/\ lines[i].of # lines[j].of
                /\ Aim(streams, lines[i]) = Aim(streams, lines[j])
                /\ Aim(streams, lines[i]) # NoPoint /\ Once(Aim(streams, lines[i])))
               => Earlier(closed, lines[i].of, lines[j].of)
      BY <2>1, <2>2, <2>3 DEF InFile, OwnOrder, InTurn
    <2>5. \A i \in DOMAIN lines : Aim(streams, lines[i]) # NoPoint /\ Once(Aim(streams, lines[i])) =>
            \E j \in (i + 1)..Len(lines) :
              /\ lines[j].point = Aim(streams, lines[i])
              /\ lines[i].indent = lines[j].indent + streams[lines[i].of].text[lines[i].at].indent
      <3> SUFFICES ASSUME NEW i \in DOMAIN lines, Aim(streams, lines[i]) # NoPoint, Once(Aim(streams, lines[i]))
                   PROVE  \E j \in (i + 1)..Len(lines) :
                            /\ lines[j].point = Aim(streams, lines[i])
                            /\ lines[i].indent = lines[j].indent + streams[lines[i].of].text[lines[i].at].indent
        OBVIOUS
      <3>1. PICK j \in 1..Len(lines) :
              /\ i < j /\ lines[j].point = Aim(streams, lines[i])
              /\ lines[i].indent = lines[j].indent + streams[lines[i].of].text[lines[i].at].indent
        BY <2>1, <2>2, <2>3 DEF InFile, Above
      <3>2. j \in (i + 1)..Len(lines)
        BY <2>2, <3>1
      <3> QED BY <3>1, <3>2
    <2> QED BY <2>4, <2>5 DEF lines, Once, Aim, Earlier
  <1> QED BY <1>1, LinesInvariance, PTL

-----------------------------------------------------------------------------
(* Descriptors.                                                              *)

Marks == Ends \cup {"free", "other"}
Tables == [Fds -> Marks]

\* The first descriptors pipe() may give out in a table, and those it still may.
FreeFrom(table, f) == table \in Tables /\ \A g \in f..6 : table[g] = "free"

\* An end of a pipe is at one descriptor.
Single(table, end) == \E f \in Fds : table[f] = end /\ \A g \in Fds : table[g] = end => g = f

LEMMA LowestIs ==
  ASSUME NEW table, NEW f \in 3..6, FreeFrom(table, f)
  PROVE  Lowest(table) \in 0..f /\ table[Lowest(table)] = "free"
  <1> DEFINE IsLowest(n) == table[n] = "free" /\ \A g \in Fds : g < n => table[g] # "free"
  <1>1. \E n \in Fds : IsLowest(n)
    <2>1. table[f] = "free" /\ f \in Fds
      BY DEF FreeFrom, Fds
    <2>2. CASE table[0] = "free"
      BY <2>2 DEF Fds
    <2>3. CASE table[0] # "free" /\ table[1] = "free"
      BY <2>3 DEF Fds
    <2>4. CASE table[0] # "free" /\ table[1] # "free" /\ table[2] = "free"
      BY <2>4 DEF Fds
    <2>5. CASE table[0] # "free" /\ table[1] # "free" /\ table[2] # "free" /\ table[3] = "free"
      BY <2>5 DEF Fds
    <2>6. CASE /\ table[0] # "free" /\ table[1] # "free" /\ table[2] # "free"
               /\ table[3] # "free" /\ table[4] = "free"
      BY <2>6 DEF Fds
    <2>7. CASE /\ table[0] # "free" /\ table[1] # "free" /\ table[2] # "free"
               /\ table[3] # "free" /\ table[4] # "free" /\ table[5] = "free"
      BY <2>7 DEF Fds
    <2>8. CASE /\ table[0] # "free" /\ table[1] # "free" /\ table[2] # "free"
               /\ table[3] # "free" /\ table[4] # "free" /\ table[5] # "free"
      BY <2>1, <2>8 DEF Fds
    <2> QED BY <2>2, <2>3, <2>4, <2>5, <2>6, <2>7, <2>8
  <1>2. Lowest(table) = CHOOSE n \in Fds : IsLowest(n)
    BY DEF Lowest
  <1> HIDE DEF IsLowest
  <1>3. Lowest(table) \in Fds /\ IsLowest(Lowest(table))
    BY <1>1, <1>2
  <1>4. table[f] = "free" /\ f \in Fds
    BY DEF FreeFrom, Fds
  <1> QED BY <1>3, <1>4 DEF IsLowest, Fds

\* pipe() puts a new end where nothing was.
LEMMA GiveIs ==
  ASSUME NEW table, NEW f \in 3..6, FreeFrom(table, f), NEW end \in Ends,
         \A g \in Fds : table[g] # end
  PROVE  /\ FreeFrom(Give(table, end), f + 1) /\ Single(Give(table, end), end)
         /\ \A g \in Fds : table[g] # "free" => Give(table, end)[g] = table[g]
         /\ \A e \in Ends \ {end} : /\ Single(table, e) => Single(Give(table, end), e)
                                    /\ (\A g \in Fds : table[g] # e) => \A g \in Fds : Give(table, end)[g] # e
  <1> DEFINE low == Lowest(table)
  <1>1. low \in 0..f /\ table[low] = "free" /\ low \in Fds /\ table \in Tables
    BY LowestIs DEF FreeFrom, Fds
  <1>2. Give(table, end) = [table EXCEPT ![low] = end]
    BY DEF Give
  <1> HIDE DEF low
  <1>3. Give(table, end) \in Tables /\ Give(table, end)[low] = end
        /\ \A g \in Fds \ {low} : Give(table, end)[g] = table[g]
    BY <1>1, <1>2 DEF Tables, Marks
  <1>4. FreeFrom(Give(table, end), f + 1)
    BY <1>1, <1>3 DEF FreeFrom, Fds
  <1>5. Single(Give(table, end), end)
    BY <1>1, <1>3 DEF Single
  <1>6. "free" \notin Ends
    BY DEF Ends
  <1>7. ASSUME NEW e \in Ends \ {end}
        PROVE  /\ Single(table, e) => Single(Give(table, end), e)
               /\ (\A g \in Fds : table[g] # e) => \A g \in Fds : Give(table, end)[g] # e
    BY <1>1, <1>3, <1>6, <1>7 DEF Single
  <1> QED BY <1>1, <1>3, <1>4, <1>5, <1>7

LEMMA FdOfIs ==
  ASSUME NEW table, NEW end, Single(table, end)
  PROVE  /\ FdOf(table, end) \in Fds /\ table[FdOf(table, end)] = end
         /\ \A g \in Fds : table[g] = end => g = FdOf(table, end)
  BY DEF FdOf, Single

\* What fork() hands on: both pipes, and what the parent had.
LEMMA ForkTable ==
  ASSUME NEW table, FreeFrom(table, 3), \A g \in Fds : table[g] \notin Ends
  PROVE  LET new == Pipe(Pipe(table, "inR", "inW"), "outR", "outW")
         IN /\ new \in Tables /\ \A e \in Ends : Single(new, e)
            /\ \A g \in Fds : table[g] # "free" => new[g] = table[g]
  <1> DEFINE t1 == Give(table, "inR")
             t2 == Give(t1, "inW")
             t3 == Give(t2, "outR")
             t4 == Give(t3, "outW")
  <1>1. Ends = {"inR", "inW", "outR", "outW"} /\ "free" \notin Ends
    BY DEF Ends
  <1>2. /\ FreeFrom(t1, 4) /\ Single(t1, "inR")
        /\ \A g \in Fds : table[g] # "free" => t1[g] = table[g]
        /\ \A g \in Fds : t1[g] # "inW" /\ t1[g] # "outR" /\ t1[g] # "outW"
    BY <1>1, GiveIs
  <1> HIDE DEF t1
  <1>3. /\ FreeFrom(t2, 5) /\ Single(t2, "inR") /\ Single(t2, "inW")
        /\ \A g \in Fds : t1[g] # "free" => t2[g] = t1[g]
        /\ \A g \in Fds : t2[g] # "outR" /\ t2[g] # "outW"
    BY <1>1, <1>2, GiveIs
  <1> HIDE DEF t2
  <1>4. /\ FreeFrom(t3, 6) /\ Single(t3, "inR") /\ Single(t3, "inW") /\ Single(t3, "outR")
        /\ \A g \in Fds : t2[g] # "free" => t3[g] = t2[g]
        /\ \A g \in Fds : t3[g] # "outW"
    BY <1>1, <1>3, GiveIs
  <1> HIDE DEF t3
  <1>5. /\ FreeFrom(t4, 7) /\ Single(t4, "inR") /\ Single(t4, "inW") /\ Single(t4, "outR")
        /\ Single(t4, "outW")
        /\ \A g \in Fds : t3[g] # "free" => t4[g] = t3[g]
    BY <1>1, <1>4, GiveIs
  <1>6. Pipe(Pipe(table, "inR", "inW"), "outR", "outW") = t4
    BY DEF Pipe, t1, t2, t3
  <1> HIDE DEF t4
  <1> QED BY <1>1, <1>2, <1>3, <1>4, <1>5, <1>6 DEF FreeFrom

-----------------------------------------------------------------------------
(* The invariant of parent and plugin.                                       *)

\* protoc was started with a standard input and output.
StdOpen == 0 \notin ClosedAtStart /\ 1 \notin ClosedAtStart

Started == pc \notin {"start", "forked"}

PipeTypes ==
    /\ pc \in {"start", "forked", "select", "write", "read", "wait", "done"}
    /\ parentFd \in Tables /\ childFd \in Tables
    /\ child_stdin \in Fds \cup {-1} /\ child_stdout \in Fds \cup {-1}
    /\ output_data \in Nat /\ outPipe \in Nat /\ childWrote \in Nat /\ childLeft \in Nat
    /\ cut \in BOOLEAN /\ readsFirst \in BOOLEAN
    /\ child \in {"none", "forked", "running", "exited"}

\* Who has which end of a pipe.
Handed ==
    /\ pc = "start" =>
         /\ child = "none" /\ FreeFrom(parentFd, 3) /\ \A f \in Fds : parentFd[f] \notin Ends
         /\ StdOpen => parentFd[0] = "other" /\ parentFd[1] = "other"
    /\ pc # "start" => child # "none"
    /\ pc = "forked" => \A e \in Ends : Single(parentFd, e)
    /\ Started => \A f \in Fds : parentFd[f] # "inR" /\ parentFd[f] # "outW"
    /\ child = "forked" =>
         /\ \A e \in Ends : Single(childFd, e)
         /\ StdOpen => childFd[0] = "other" /\ childFd[1] = "other"
    /\ child = "running" /\ readsFirst /\ StdOpen =>
         /\ childFd[0] = "inR" /\ childFd[1] = "outW"
         /\ \A f \in Fds \ {0, 1} : childFd[f] \notin Ends

\* What the plugin wrote is in the pipe or with the parent.
Counted ==
    /\ childWrote = output_data + outPipe
    /\ childLeft > 0 => child = "running" /\ childFd[1] = "outW"

\* Without a signal, the parent stops to read when nothing more can come.
Ended == Started /\ child_stdout = -1 /\ ~cut => outPipe = 0 /\ ~Held("outW")

Waited ==
    /\ pc \in {"wait", "done"} => child_stdout = -1
    /\ child = "exited" => wait_status \in {"zero", "nonzero", "signal"}
    /\ result = "ok" => pc = "done" /\ child = "exited" /\ wait_status = "zero"

PipeInv == PipeTypes /\ Handed /\ Counted /\ Ended /\ Waited

LEMMA CloseKeeps ==
  ASSUME NEW table \in Tables, NEW f
  PROVE  /\ Close(table, f) \in Tables
         /\ \A g \in Fds : Close(table, f)[g] = table[g] \/ Close(table, f)[g] = "free"
  BY DEF Close, Tables, Marks

LEMMA CloseAllKeeps ==
  ASSUME NEW table \in Tables, NEW fs
  PROVE  /\ CloseAll(table, fs) \in Tables
         /\ \A g \in Fds : CloseAll(table, fs)[g] = IF g \in fs THEN "free" ELSE table[g]
  BY DEF CloseAll, Tables, Marks

LEMMA NoFdsIs == NoFds \in Tables /\ \A g \in Fds : NoFds[g] = "free"
  BY DEF NoFds, Tables, Marks

\* A parent that closes descriptors, or none, and leaves the rest to the child.
LEMMA ParentKeeps ==
  ASSUME PipeInv, Started, Started', child' = child, childFd' = childFd, readsFirst' = readsFirst,
         parentFd' \in Tables, \A g \in Fds : parentFd'[g] = parentFd[g] \/ parentFd'[g] = "free"
  PROVE  Handed' /\ (Held("outW")' => Held("outW"))
  <1>1. /\ pc # "start" /\ pc # "forked" /\ pc' # "start" /\ pc' # "forked"
    BY DEF Started
  <1>2. "free" # "inR" /\ "free" # "outW"
    OBVIOUS
  <1>3. Held("outW")' => Held("outW")
    BY <1>2 DEF Held
  <1>4. Handed'
    BY <1>1, <1>2 DEF PipeInv, Handed, Started
  <1> QED BY <1>3, <1>4

LEMMA ForkKeeps ==
  ASSUME PipeInv, Fork
  PROVE  PipeInv'
  <1> DEFINE table == Pipe(Pipe(parentFd, "inR", "inW"), "outR", "outW")
  <1>1. /\ pc = "start" /\ pc' = "forked" /\ child' = "forked" /\ parentFd' = table /\ childFd' = table
        /\ UNCHANGED <<child_stdin, child_stdout, communicate, cut, result, pipes, readsFirst,
                       wait_status, childWrote, childLeft>>
    BY DEF Fork
  <1>2. FreeFrom(parentFd, 3) /\ \A f \in Fds : parentFd[f] \notin Ends
    BY <1>1 DEF PipeInv, Handed
  <1>3. /\ table \in Tables /\ \A e \in Ends : Single(table, e)
        /\ \A g \in Fds : parentFd[g] # "free" => table[g] = parentFd[g]
    BY <1>2, ForkTable
  <1> HIDE DEF table
  <1>4. StdOpen => table[0] = "other" /\ table[1] = "other"
    BY <1>1, <1>3 DEF PipeInv, Handed, Fds
  <1>5. Handed'
    BY <1>1, <1>3, <1>4 DEF Handed, Started
  <1>6. PipeTypes' /\ Ended' /\ Waited' /\ Counted'
    BY <1>1, <1>3 DEF PipeInv, PipeTypes, Handed, Ended, Waited, Counted, Started, communicate, pipes
  <1> QED BY <1>5, <1>6 DEF PipeInv

LEMMA ParentClosesKeeps ==
  ASSUME PipeInv, ParentCloses
  PROVE  PipeInv'
  <1>1. /\ pc = "forked" /\ pc' = "select" /\ UNCHANGED <<communicate, cut, result, pipes, childVars>>
        /\ parentFd' = CloseAll(parentFd, {FdOf(parentFd, "inR"), FdOf(parentFd, "outW")})
        /\ child_stdin' = FdOf(parentFd, "inW") /\ child_stdout' = FdOf(parentFd, "outR")
    BY DEF ParentCloses
  <1>2. \A e \in {"inR", "inW", "outR", "outW"} : Single(parentFd, e)
    BY <1>1 DEF PipeInv, Handed, Ends
  <1>3. /\ FdOf(parentFd, "inW") \in Fds /\ FdOf(parentFd, "outR") \in Fds
        /\ \A g \in Fds : /\ parentFd[g] = "inR" => g = FdOf(parentFd, "inR")
                          /\ parentFd[g] = "outW" => g = FdOf(parentFd, "outW")
    BY <1>2, FdOfIs
  <1>4. parentFd' \in Tables /\ \A g \in Fds : parentFd'[g] # "inR" /\ parentFd'[g] # "outW"
    BY <1>1, <1>3, CloseAllKeeps DEF PipeInv, PipeTypes
  <1>5. child_stdout' # -1
    BY <1>1, <1>3 DEF Fds
  <1>6. PipeTypes'
    BY <1>1, <1>3, <1>4 DEF PipeInv, PipeTypes, communicate, pipes, childVars
  <1>7. Handed'
    BY <1>1, <1>4 DEF PipeInv, Handed, Started, childVars
  <1>8. Counted' /\ Ended' /\ Waited'
    BY <1>1, <1>5 DEF PipeInv, Counted, Ended, Waited, communicate, pipes, childVars
  <1> QED BY <1>6, <1>7, <1>8 DEF PipeInv

\* Steps of Communicate that leave the output alone.
LEMMA SelectKeeps ==
  ASSUME PipeInv, Select \/ WriteSome
  PROVE  PipeInv'
  <1>1. /\ Started /\ Started' /\ pc' \in {"select", "write", "read"}
        /\ UNCHANGED <<parentFd, child_stdin, child_stdout, output_data, cut, result, outPipe, childVars>>
    BY DEF Select, WriteSome, Started, pipes
  <1>2. parentFd' \in Tables /\ \A g \in Fds : parentFd'[g] = parentFd[g]
    BY <1>1 DEF PipeInv, PipeTypes
  <1>3. Handed' /\ (Held("outW")' => Held("outW"))
    BY <1>1, <1>2, ParentKeeps DEF childVars
  <1>4. result # "ok"
    BY DEF PipeInv, Waited, Select, WriteSome
  <1> QED
    BY <1>1, <1>3, <1>4 DEF PipeInv, PipeTypes, Counted, Ended, Waited, childVars

LEMMA WriteReturnsKeeps ==
  ASSUME PipeInv, WriteReturns
  PROVE  PipeInv'
  <1>1. /\ pc = "write" /\ Started /\ Started' /\ pc' \in {"select", "read"}
        /\ UNCHANGED <<child_stdout, output_data, result, pipes, childVars>>
        /\ cut' = (cut \/ (Returned < 0 /\ Held("inR")))
        /\ \/ parentFd' = Close(parentFd, child_stdin) /\ child_stdin' = -1
           \/ UNCHANGED <<parentFd, child_stdin>>
    BY DEF WriteReturns, Started
  <1>2. parentFd' \in Tables /\ \A g \in Fds : parentFd'[g] = parentFd[g] \/ parentFd'[g] = "free"
    BY <1>1, CloseKeeps DEF PipeInv, PipeTypes
  <1>3. Handed' /\ (Held("outW")' => Held("outW"))
    BY <1>1, <1>2, ParentKeeps DEF childVars
  <1>4. cut' \in BOOLEAN /\ (~cut' => ~cut)
    BY <1>1 DEF PipeInv, PipeTypes
  <1>5. result # "ok"
    BY <1>1 DEF PipeInv, Waited
  <1>6. PipeTypes'
    BY <1>1, <1>2, <1>4 DEF PipeInv, PipeTypes, pipes, childVars
  <1>7. Counted' /\ Ended' /\ Waited'
    BY <1>1, <1>3, <1>4, <1>5 DEF PipeInv, Counted, Ended, Waited, pipes, childVars
  <1> QED BY <1>3, <1>6, <1>7 DEF PipeInv

LEMMA ReadSomeKeeps ==
  ASSUME PipeInv, ReadSome
  PROVE  PipeInv'
  <1> DEFINE n == Smaller(outPipe, ReadSize)
  <1>1. /\ Started /\ Started' /\ pc = "read" /\ pc' = "select" /\ outPipe > 0
        /\ output_data' = output_data + n /\ outPipe' = outPipe - n
        /\ UNCHANGED <<parentFd, child_stdin, child_stdout, cut, result, childVars>>
    BY DEF ReadSome, Started
  <1>2. n \in Nat /\ n <= outPipe /\ outPipe \in Nat /\ output_data \in Nat /\ childWrote \in Nat
    BY PipeAssumption DEF PipeInv, PipeTypes, Smaller
  <1> HIDE DEF n
  <1>3. parentFd' \in Tables /\ \A g \in Fds : parentFd'[g] = parentFd[g]
    BY <1>1 DEF PipeInv, PipeTypes
  <1>4. Handed'
    BY <1>1, <1>3, ParentKeeps DEF childVars
  <1>5. output_data' \in Nat /\ outPipe' \in Nat /\ output_data' + outPipe' = output_data + outPipe
    BY <1>1, <1>2
  <1>6. result # "ok" /\ (child_stdout = -1 => cut)
    BY <1>1, <1>2 DEF PipeInv, Waited, Ended
  <1>7. PipeTypes'
    BY <1>1, <1>5 DEF PipeInv, PipeTypes, childVars
  <1>8. Counted' /\ Ended' /\ Waited'
    BY <1>1, <1>5, <1>6 DEF PipeInv, Counted, Ended, Waited, childVars
  <1> QED BY <1>4, <1>7, <1>8 DEF PipeInv

LEMMA ReadEndsKeeps ==
  ASSUME PipeInv, ReadEnds
  PROVE  PipeInv'
  <1>1. /\ Started /\ Started' /\ pc = "read" /\ pc' = "select"
        /\ cut' = (cut \/ outPipe > 0 \/ Held("outW"))
        /\ parentFd' = Close(parentFd, child_stdout) /\ child_stdout' = -1
        /\ UNCHANGED <<child_stdin, communicate, result, pipes, childVars>>
    BY DEF ReadEnds, Started
  <1>2. parentFd' \in Tables /\ \A g \in Fds : parentFd'[g] = parentFd[g] \/ parentFd'[g] = "free"
    BY <1>1, CloseKeeps DEF PipeInv, PipeTypes
  <1>3. Handed' /\ (Held("outW")' => Held("outW"))
    BY <1>1, <1>2, ParentKeeps DEF childVars
  <1>4. ~cut' => ~(outPipe > 0) /\ ~Held("outW")
    BY <1>1
  <1>5. cut' \in BOOLEAN
    <2>1. Held("outW") \in BOOLEAN
      BY DEF Held
    <2> QED BY <1>1, <2>1 DEF PipeInv, PipeTypes
  <1>6. result # "ok" /\ outPipe \in Nat
    BY <1>1 DEF PipeInv, Waited, PipeTypes
  <1>7. PipeTypes'
    BY <1>1, <1>2, <1>5 DEF PipeInv, PipeTypes, communicate, pipes, childVars
  <1>8. Ended'
    BY <1>1, <1>3, <1>4, <1>6 DEF Ended, pipes
  <1>9. Counted' /\ Waited'
    BY <1>1, <1>6 DEF PipeInv, Counted, Waited, communicate, pipes, childVars
  <1> QED BY <1>3, <1>7, <1>8, <1>9 DEF PipeInv

LEMMA LeaveLoopKeeps ==
  ASSUME PipeInv, LeaveLoop
  PROVE  PipeInv'
  <1>1. /\ Started /\ Started' /\ pc = "select" /\ pc' = "wait" /\ child_stdout = -1
        /\ \/ parentFd' = Close(parentFd, child_stdin) /\ child_stdin' = -1
           \/ UNCHANGED <<parentFd, child_stdin>>
        /\ UNCHANGED <<child_stdout, communicate, cut, result, pipes, childVars>>
    BY DEF LeaveLoop, Started
  <1>2. parentFd' \in Tables /\ \A g \in Fds : parentFd'[g] = parentFd[g] \/ parentFd'[g] = "free"
    BY <1>1, CloseKeeps DEF PipeInv, PipeTypes
  <1>3. Handed' /\ (Held("outW")' => Held("outW"))
    BY <1>1, <1>2, ParentKeeps DEF childVars
  <1>4. result # "ok"
    BY <1>1 DEF PipeInv, Waited
  <1>5. PipeTypes'
    BY <1>1, <1>2 DEF PipeInv, PipeTypes, communicate, pipes, childVars
  <1>6. Counted' /\ Ended' /\ Waited'
    BY <1>1, <1>3, <1>4 DEF PipeInv, Counted, Ended, Waited, communicate, pipes, childVars
  <1> QED BY <1>3, <1>5, <1>6 DEF PipeInv

LEMMA WaitReturnsKeeps ==
  ASSUME PipeInv, WaitReturns
  PROVE  PipeInv'
  <1>1. /\ Started /\ Started' /\ pc = "wait" /\ pc' = "done" /\ child = "exited"
        /\ UNCHANGED <<parentFd, child_stdin, child_stdout, communicate, cut, pipes, childVars>>
    BY DEF WaitReturns, Started
  <1>2. wait_status \in {"zero", "nonzero", "signal"}
    BY <1>1 DEF PipeInv, Waited
  <1>3. result' = "ok" => wait_status = "zero"
    BY <1>2 DEF WaitReturns
  <1>4. parentFd' \in Tables /\ \A g \in Fds : parentFd'[g] = parentFd[g]
    BY <1>1 DEF PipeInv, PipeTypes
  <1>5. Handed' /\ (Held("outW")' => Held("outW"))
    BY <1>1, <1>4, ParentKeeps DEF childVars
  <1>6. PipeTypes'
    BY <1>1 DEF PipeInv, PipeTypes, communicate, pipes, childVars
  <1>7. Counted' /\ Ended' /\ Waited'
    BY <1>1, <1>3, <1>5 DEF PipeInv, Counted, Ended, Waited, communicate, pipes, childVars
  <1> QED BY <1>5, <1>6, <1>7 DEF PipeInv

\* The child's descriptors 0 and 1 after dup2, and what it is left with.
LEMMA ChildTableIs ==
  ASSUME childFd \in Tables, \A e \in Ends : Single(childFd, e)
  PROVE  /\ ChildTable \in Tables
         /\ childFd[0] = "other" /\ childFd[1] = "other" =>
              /\ ChildTable[0] = "inR" /\ ChildTable[1] = "outW"
              /\ \A f \in Fds \ {0, 1} : ChildTable[f] \notin Ends
  <1> DEFINE originals == {FdOf(childFd, e) : e \in Ends}
             twice == Dup2(Dup2(childFd, "inR", 0), "outW", 1)
  <1>1. ChildTable = CloseAll(twice, originals)
    BY DEF ChildTable
  <1>2. /\ twice \in Tables /\ twice[0] = "inR" /\ twice[1] = "outW"
        /\ \A f \in Fds \ {0, 1} : twice[f] = childFd[f]
    BY DEF Dup2, Tables, Marks, Ends, Fds
  <1>3. \A f \in Fds : childFd[f] \in Ends => f \in originals
    BY FdOfIs
  <1>4. \A f \in originals : childFd[f] \in Ends
    BY FdOfIs
  <1> HIDE DEF originals, twice
  <1>5. ChildTable \in Tables /\ \A g \in Fds : ChildTable[g] = IF g \in originals THEN "free" ELSE twice[g]
    BY <1>1, <1>2, CloseAllKeeps
  <1>6. "other" \notin Ends /\ "free" \notin Ends /\ 0 \in Fds /\ 1 \in Fds
    BY DEF Ends, Fds
  <1>7. ASSUME childFd[0] = "other", childFd[1] = "other"
        PROVE  /\ ChildTable[0] = "inR" /\ ChildTable[1] = "outW"
               /\ \A f \in Fds \ {0, 1} : ChildTable[f] \notin Ends
    <2>1. 0 \notin originals /\ 1 \notin originals
      BY <1>4, <1>6, <1>7
    <2>2. ASSUME NEW f \in Fds \ {0, 1} PROVE ChildTable[f] \notin Ends
      BY <1>2, <1>3, <1>5, <1>6
    <2> QED BY <1>2, <1>5, <1>6, <2>1, <2>2
  <1> QED BY <1>5, <1>7

LEMMA ChildExecsKeeps ==
  ASSUME PipeInv, ChildExecs
  PROVE  PipeInv'
  <1>1. /\ child = "forked" /\ UNCHANGED <<parentVars, pipes, readsFirst, childWrote, childLeft>>
        /\ \/ child' = "running" /\ childFd' = ChildTable /\ wait_status' = wait_status
           \/ child' = "exited" /\ childFd' = NoFds /\ wait_status' = "nonzero"
    BY DEF ChildExecs
  <1>2. /\ childFd \in Tables /\ \A e \in Ends : Single(childFd, e)
        /\ StdOpen => childFd[0] = "other" /\ childFd[1] = "other"
        /\ childLeft = 0 /\ pc # "start"
    BY <1>1 DEF PipeInv, PipeTypes, Handed, Counted
  <1>3. /\ ChildTable \in Tables
        /\ StdOpen => /\ ChildTable[0] = "inR" /\ ChildTable[1] = "outW"
                      /\ \A f \in Fds \ {0, 1} : ChildTable[f] \notin Ends
    BY <1>2, ChildTableIs
  <1>4. Held("outW")
    BY <1>2 DEF Single, Held, Ends
  <1>5. PipeTypes'
    BY <1>1, <1>3, NoFdsIs DEF PipeInv, PipeTypes, parentVars, communicate, pipes
  <1>6. Handed'
    BY <1>1, <1>2, <1>3 DEF PipeInv, Handed, Started, parentVars
  <1>7. Counted' /\ Waited'
    BY <1>1, <1>2 DEF PipeInv, Counted, Waited, parentVars, communicate, pipes
  <1>8. Ended'
    BY <1>1, <1>4 DEF PipeInv, Ended, Started, parentVars
  <1> QED BY <1>5, <1>6, <1>7, <1>8 DEF PipeInv

\* The plugin reads, or decides to write.
LEMMA ChildGoesKeeps ==
  ASSUME PipeInv, ChildReads \/ ChildSeesEof \/ ChildBeginsWrite
  PROVE  PipeInv'
  <1>1. /\ child = "running"
        /\ UNCHANGED <<parentVars, outPipe, readsFirst, child, childFd, wait_status, childWrote>>
        /\ \/ childLeft' = childLeft
           \/ childFd[1] = "outW" /\ childWrote < OutputLen /\ childLeft' = OutputLen - childWrote
    BY DEF ChildReads, ChildSeesEof, ChildBeginsWrite, pipes
  <1>2. childLeft' \in Nat
    BY <1>1, PipeAssumption DEF PipeInv, PipeTypes
  <1>3. PipeTypes'
    BY <1>1, <1>2 DEF PipeInv, PipeTypes, parentVars, communicate
  <1>4. Handed'
    BY <1>1 DEF PipeInv, Handed, Started, parentVars
  <1>5. Counted' /\ Waited'
    BY <1>1 DEF PipeInv, Counted, Waited, parentVars, communicate
  <1>6. Ended'
    BY <1>1 DEF PipeInv, Ended, Started, Held, parentVars, communicate
  <1> QED BY <1>3, <1>4, <1>5, <1>6 DEF PipeInv

LEMMA ChildWritesKeeps ==
  ASSUME PipeInv, ChildWrites
  PROVE  PipeInv'
  <1>1. /\ child = "running" /\ childLeft > 0
        /\ UNCHANGED <<parentVars, inPipe, readsFirst, child, childFd, wait_status>>
    BY DEF ChildWrites
  <1>2. PICK n \in 1..Smaller(childLeft, Capacity - outPipe) :
          outPipe' = outPipe + n /\ childWrote' = childWrote + n /\ childLeft' = childLeft - n
    BY DEF ChildWrites
  <1>3. /\ outPipe \in Nat /\ childWrote \in Nat /\ output_data \in Nat /\ childLeft \in Nat
        /\ childWrote = output_data + outPipe
    BY DEF PipeInv, PipeTypes, Counted
  <1>4. n \in Nat /\ n <= childLeft
    BY <1>2, <1>3, PipeAssumption DEF Smaller
  <1>5. /\ outPipe' \in Nat /\ childWrote' \in Nat /\ childLeft' \in Nat
        /\ childWrote' = output_data + outPipe'
    BY <1>2, <1>3, <1>4
  <1>6. PipeTypes'
    BY <1>1, <1>5 DEF PipeInv, PipeTypes, parentVars, communicate
  <1>7. Handed'
    BY <1>1 DEF PipeInv, Handed, Started, parentVars
  <1>8. Counted' /\ Waited'
    BY <1>1, <1>5 DEF PipeInv, Counted, Waited, parentVars, communicate
  <1>9. Held("outW")
    BY <1>1 DEF PipeInv, Counted, Held, Fds
  <1>10. Ended'
    BY <1>1, <1>9 DEF PipeInv, Ended, Started, parentVars, communicate
  <1> QED BY <1>6, <1>7, <1>8, <1>10 DEF PipeInv

LEMMA DiesKeeps ==
  ASSUME PipeInv, child = "running", NEW how \in {"zero", "nonzero", "signal"}, Dies(how)
  PROVE  PipeInv'
  <1>1. /\ child' = "exited" /\ wait_status' = how /\ childFd' = NoFds /\ childLeft' = 0
        /\ UNCHANGED <<parentVars, pipes, readsFirst, childWrote>>
    BY DEF Dies
  <1>2. PipeTypes'
    BY <1>1, NoFdsIs DEF PipeInv, PipeTypes, parentVars, communicate, pipes
  <1>3. Handed'
    BY <1>1 DEF PipeInv, Handed, Started, parentVars
  <1>4. Counted' /\ Waited'
    BY <1>1 DEF PipeInv, Counted, Waited, parentVars, communicate, pipes
  <1>5. Held("outW")' => Held("outW")
    BY <1>1, NoFdsIs DEF Held, parentVars
  <1>6. Ended'
    BY <1>1, <1>5 DEF PipeInv, Ended, Started, parentVars, pipes
  <1> QED BY <1>2, <1>3, <1>4, <1>6 DEF PipeInv

LEMMA ChildClosesKeeps ==
  ASSUME PipeInv, NEW f \in {0, 1}, ChildCloses(f)
  PROVE  PipeInv'
  <1>1. /\ child = "running" /\ childLeft = 0 /\ ~readsFirst /\ childFd' = Close(childFd, f)
        /\ UNCHANGED <<parentVars, pipes, readsFirst, child, wait_status, childWrote, childLeft>>
    BY DEF ChildCloses
  <1>2. childFd' \in Tables /\ \A g \in Fds : childFd'[g] = childFd[g] \/ childFd'[g] = "free"
    BY <1>1, CloseKeeps DEF PipeInv, PipeTypes
  <1>3. PipeTypes'
    BY <1>1, <1>2 DEF PipeInv, PipeTypes, parentVars, communicate, pipes
  <1>4. Handed'
    BY <1>1 DEF PipeInv, Handed, Started, parentVars
  <1>5. Counted' /\ Waited'
    BY <1>1 DEF PipeInv, Counted, Waited, parentVars, communicate, pipes
  <1>6. Held("outW")' => Held("outW")
    BY <1>1, <1>2 DEF Held, parentVars
  <1>7. Ended'
    BY <1>1, <1>6 DEF PipeInv, Ended, Started, parentVars, pipes
  <1> QED BY <1>3, <1>4, <1>5, <1>7 DEF PipeInv

LEMMA PipeInitHolds == PipeInit => PipeInv
  <1> SUFFICES ASSUME PipeInit PROVE PipeInv
    OBVIOUS
  <1>1. parentFd = [f \in Fds |-> IF f \in (0..2) \ ClosedAtStart THEN "other" ELSE "free"]
    BY DEF PipeInit
  <1>2. /\ parentFd \in Tables /\ \A f \in Fds : parentFd[f] \notin Ends
        /\ \A f \in 3..6 : parentFd[f] = "free"
        /\ StdOpen => parentFd[0] = "other" /\ parentFd[1] = "other"
    BY <1>1 DEF Tables, Marks, Ends, Fds, StdOpen
  <1>3. PipeTypes
    BY <1>2, NoFdsIs DEF PipeInit, PipeTypes
  <1>4. Handed /\ Counted /\ Ended /\ Waited
    BY <1>2 DEF PipeInit, Handed, Started, FreeFrom, Counted, Ended, Waited
  <1> QED BY <1>3, <1>4 DEF PipeInv

LEMMA PipeNextHolds == PipeInv /\ [PipeNext]_pipeVars => PipeInv'
  <1> SUFFICES ASSUME PipeInv, [PipeNext]_pipeVars PROVE PipeInv'
    OBVIOUS
  <1>1. CASE UNCHANGED pipeVars
    BY <1>1 DEF PipeInv, PipeTypes, Handed, Counted, Ended, Waited, Started, Held, pipeVars, parentVars,
       communicate, pipes, childVars
  <1>2. CASE ParentStep
    BY <1>2, ForkKeeps, ParentClosesKeeps, SelectKeeps, WriteReturnsKeeps, ReadSomeKeeps, ReadEndsKeeps,
       LeaveLoopKeeps, WaitReturnsKeeps DEF ParentStep
  <1>3. CASE ChildBrokenPipe \/ ChildReturns \/ ChildFails \/ ChildKilled
    BY <1>3, DiesKeeps DEF ChildBrokenPipe, ChildReturns, ChildFails, ChildKilled
  <1>4. CASE ChildRuns
    BY <1>3, <1>4, ChildExecsKeeps, ChildGoesKeeps, ChildWritesKeeps DEF ChildRuns
  <1>5. ASSUME NEW f \in {0, 1}, ChildCloses(f) PROVE PipeInv'
    BY <1>5, ChildClosesKeeps
  <1>6. CASE Finished
    BY <1>1, <1>6 DEF Finished
  <1> QED BY <1>1, <1>2, <1>3, <1>4, <1>5, <1>6 DEF PipeNext

\* Who has which end of a pipe, and where the bytes of the response are.
THEOREM PipeInvariance == PipeSpec => []PipeInv
  <1>1. PipeInit => PipeInv
    BY PipeInitHolds
  <1>2. PipeInv /\ [PipeNext]_pipeVars => PipeInv'
    BY PipeNextHolds
  <1> QED BY <1>1, <1>2, PTL DEF PipeSpec

\* What Communicate returns true for is all that a plugin wrote which then exited
\* with 0, for requests, responses, pipes and buffers of any size.
THEOREM SuccessesAreWhole == PipeSpec => []SuccessIsWhole
  <1>1. PipeInv => SuccessIsWhole
    <2> SUFFICES ASSUME PipeInv, result = "ok", ~cut
                 PROVE  wait_status = "zero" /\ output_data = childWrote /\ outPipe = 0
      BY DEF SuccessIsWhole
    <2>1. pc = "done" /\ wait_status = "zero" /\ child_stdout = -1
      BY DEF PipeInv, Waited
    <2>2. outPipe = 0 /\ childWrote = output_data + outPipe /\ output_data \in Nat
      BY <2>1 DEF PipeInv, Ended, Started, Counted, PipeTypes
    <2> QED BY <2>1, <2>2
  <1> QED BY <1>1, PipeInvariance, PTL

\* The plugin has its pipes and no end of another, if protoc itself has a standard
\* input and output: pipe() gives out descriptors 0 and 1 if not, which dup2 then
\* takes for the plugin's and the closing of the originals closes.
THEOREM PluginGetsPipes ==
  ASSUME StdOpen
  PROVE  PipeSpec => []PluginHasPipes
  <1>1. PipeInv => PluginHasPipes
    BY DEF PipeInv, Handed, PluginHasPipes
  <1> QED BY <1>1, PipeInvariance, PTL
=============================================================================
