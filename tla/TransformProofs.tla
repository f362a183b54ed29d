--------------------------- MODULE TransformProofs ---------------------------
(***************************************************************************)
(* Theorems about a transform and about the front ends that run one, each  *)
(* its own specification with its own variables.                           *)
(*                                                                         *)
(* Frontends, for any command lines, files, environments and URLs: the     *)
(* output path never holds half an output, no temporary file is left       *)
(* unmentioned, and the exit code tells what happened to the output,       *)
(* whoever races for the path and wherever the process is killed; and the  *)
(* orientation that is reported is the one that is applied.                *)
(*                                                                         *)
(* Transform, for any requests and limits: the output is shown as meant,   *)
(* no stage allocates past the output limit, and content and watermarks    *)
(* lie inside what they are placed on; and a document that has been        *)
(* sanitized is inert and sanitizes to itself.                             *)
(***************************************************************************)
EXTENDS Frontends, Transform, FiniteSetTheorems, SequenceTheorems, WellFoundedInduction, TLAPS

-----------------------------------------------------------------------------
(*                        Part 1: the front ends                           *)

\* The steps of a command or a call before anything is written.
Before ==
  {"parse", "read", "hop", "sniff", "watermark", "mark", "transform", "text", "config", "bind",
   "call", "declared", "options", "overlay", "run"}

\* The steps there are, and what may be said of the disk.
Steps ==
  /\ at \in Before \cup Replacing \cup {"flush", "serving", "end"}
  /\ disk \in [out : {"old", "new", "rival", "cut"}, tmp : {"none", "cut", "whole"},
               put : BOOLEAN, inPlace : BOOLEAN]

\* Only replace_file touches the disk.
Untouched ==
  at \in Before \cup {"serving"} =>
    disk.out = "old" /\ disk.tmp = "none" /\ ~disk.put /\ ~disk.inPlace

\* Standard output: nothing is written to it on the way to a file, and only a
\* server goes on after its last word.
Unwritten ==
  /\ at \in Before \cup Replacing => stdout = "empty" /\ ~disk.put
  /\ at \in {"bind", "serving"} => config.probe # "none"
  /\ at = "serving" => stdout = "written"
  /\ at = "flush" => IF disk.put THEN stdout = "empty" ELSE stdout \in {"buffered", "written"}

\* The temporary file exists from its creation to the rename or the removal,
\* and is whole when it is renamed.
TemporaryOwned ==
  /\ at \in {"replace", "create", "open", "pour", "flush"} => disk.tmp = "none"
  /\ at = "rename" => disk.tmp = "whole"
  /\ at = "pour" => disk.inPlace

\* Unless it was written through, the output path holds what was there, what a
\* rival put there, or the whole new output.
OutputKept ==
  ~disk.inPlace => disk.out \in (IF disk.put THEN {"new"} ELSE {"old", "rival"})

\* The inductive invariant.
FrontInv ==
  /\ Steps /\ Untouched /\ Unwritten /\ TemporaryOwned /\ OutputKept
  /\ NoStrayTemporary /\ ExitTells

LEMMA FrontInit == Init => FrontInv
BY DEF Init, CommandInit, FrontInv, Steps, Untouched, Unwritten, TemporaryOwned, OutputKept,
   NoStrayTemporary, ExitTells, Ended, Before, Replacing

-----------------------------------------------------------------------------
(* The steps before anything is written *)

\* The step leads on, or ends the command with a failure.
Prepares ==
  /\ at \in Before /\ UNCHANGED <<disk, stdout>>
  /\ \/ at' \in Before \cup {"replace"} /\ (at' = "bind" => config'.probe # "none")
     \/ at' = "end" /\ end'.code \in 1..5

LEMMA PreparesKeeps ==
  ASSUME FrontInv, Prepares
  PROVE  FrontInv'
<1>. USE DEF FrontInv, Steps, Untouched, Unwritten, TemporaryOwned, OutputKept
<1>1. /\ disk' = disk /\ stdout' = stdout /\ stdout = "empty"
      /\ disk.out = "old" /\ disk.tmp = "none" /\ ~disk.put /\ ~disk.inPlace
  BY DEF Prepares
<1>2. CASE at' \in Before \cup {"replace"} /\ (at' = "bind" => config'.probe # "none")
  BY <1>1, <1>2 DEF Before, Replacing, NoStrayTemporary, ExitTells, Ended
<1>3. CASE at' = "end" /\ end'.code \in 1..5
  <2>1. Steps' /\ Untouched' /\ Unwritten' /\ TemporaryOwned' /\ OutputKept' /\ NoStrayTemporary'
    BY <1>1, <1>3 DEF Before, Replacing, NoStrayTemporary
  <2>2. ExitTells'
    BY <1>1, <1>3 DEF ExitTells, Delivered
  <2>. QED  BY <2>1, <2>2
<1>. QED  BY <1>2, <1>3 DEF Prepares

LEMMA ExitCodes ==
  /\ \A class : ExitOf(class) \in 1..5
  /\ {ExitUsage, ExitIo, ExitInput, ExitTransform, ExitRuntime} \subseteq 1..5
BY DEF ExitOf, ExitUsage, ExitIo, ExitInput, ExitTransform, ExitRuntime

\* Where parse_args may send a command.
LEMMA CommandRange ==
  ASSUME NEW line
  PROVE  Command(line) \in {"usage", "options", "convert", "inspect", "text", "config"}
BY DEF Command, FromClap, SignFromClap

LEMMA CommandPrepares ==
  ASSUME \/ ParseArgs \/ ReadInput \/ Hop \/ Sniffed \/ ReadWatermark \/ SniffWatermark
         \/ RunTransform \/ ResolveConfig
  PROVE  Prepares
<1>. USE ExitCodes DEF Prepares, Before, Same, Goes, Fails, Ends2, Panics
<1>1. CASE ParseArgs
  BY <1>1, CommandRange DEF ParseArgs
<1>2. CASE ReadInput
  BY <1>2 DEF ReadInput
<1>3. CASE Hop
  <2>1. at = "hop" /\ UNCHANGED <<disk, stdout>>
    BY <1>3 DEF Hop
  <2>2. \/ at' \in {"hop", "sniff", "mark"}
        \/ at' = "end" /\ end' = [code |-> ExitIo, class |-> "BadGateway", named |-> FALSE]
    BY <1>3 DEF Hop
  <2>. QED  BY <2>1, <2>2
<1>4. CASE Sniffed
  BY <1>4 DEF Sniffed
<1>5. CASE ReadWatermark
  BY <1>5 DEF ReadWatermark
<1>6. CASE SniffWatermark
  BY <1>6 DEF SniffWatermark
<1>7. CASE RunTransform
  BY <1>7 DEF RunTransform
<1>8. CASE ResolveConfig
  <2>1. at = "config" /\ UNCHANGED <<disk, stdout>>
    BY <1>8 DEF ResolveConfig
  <2>2. CASE at' = "end"
    <3>1. end' = [code |-> ExitUsage, class |-> "InvalidRequest", named |-> FALSE]
      BY <1>8, <2>2 DEF ResolveConfig
    <3>. QED  BY <2>1, <2>2, <3>1
  <2>3. CASE at' # "end"
    <3>1. at' \in {"text", "bind"}
      BY <1>8, <2>3 DEF ResolveConfig
    <3>2. PICK answer \in ProbeAnswers :
             config' = [s |-> Overlay(FromEnv(job.env), job.line.flags), probe |-> answer]
      BY <1>8, <2>3 DEF ResolveConfig
    <3>3. config'.probe \in ProbeAnswers
      BY <3>2
    <3>. QED  BY <2>1, <3>1, <3>3 DEF ProbeAnswers
  <2>. QED  BY <2>2, <2>3
<1>. QED  BY <1>1, <1>2, <1>3, <1>4, <1>5, <1>6, <1>7, <1>8

\* A call of the WebAssembly adapter leads on, throws, or returns its value.
CallReturns == at \in Before /\ disk' = disk /\ stdout' = "written" /\ at' = "end"
               /\ end' = [code |-> 0, class |-> "none", named |-> FALSE]

LEMMA CallPrepares ==
  ASSUME CallStep
  PROVE  Prepares \/ CallReturns
<1>. USE DEF Prepares, CallReturns, Before, Same, Goes, Fails, Ends2, Throws, Returns
<1>1. CASE CallStarts
  BY <1>1 DEF CallStarts
<1>2. CASE CallDeclares
  BY <1>2 DEF CallDeclares
<1>3. CASE CallSniffed
  BY <1>3 DEF CallSniffed
<1>4. CASE CallOptions
  BY <1>4 DEF CallOptions
<1>5. CASE CallWatermark
  BY <1>5 DEF CallWatermark
<1>6. CASE CallTransforms
  BY <1>6 DEF CallTransforms
<1>. QED  BY <1>1, <1>2, <1>3, <1>4, <1>5, <1>6 DEF CallStep

LEMMA ReturnKeeps ==
  ASSUME FrontInv, CallReturns
  PROVE  FrontInv'
<1>1. /\ disk' = disk /\ stdout' = "written" /\ at' = "end"
      /\ end'.code = 0 /\ end'.class = "none"
      /\ disk.out = "old" /\ disk.tmp = "none" /\ ~disk.put /\ ~disk.inPlace
  BY DEF CallReturns, FrontInv, Untouched
<1>. QED  BY <1>1 DEF FrontInv, Steps, Untouched, Unwritten, TemporaryOwned, OutputKept,
          NoStrayTemporary, ExitTells, Delivered, Before, Replacing

-----------------------------------------------------------------------------
(* Standard output and the server *)

LEMMA StdoutKeeps ==
  ASSUME FrontInv, WriteStdout \/ Flush \/ Bind \/ ServeReturns
  PROVE  FrontInv'
<1>. USE DEF FrontInv, Steps, Untouched, Unwritten, TemporaryOwned, OutputKept, NoStrayTemporary
<1>. USE DEF Same, Goes, Fails, Ends2, Panics, ExitRuntime, Before, Replacing
<1>1. CASE WriteStdout
  <2>1. /\ disk' = disk /\ disk.out = "old" /\ disk.tmp = "none" /\ ~disk.put /\ ~disk.inPlace
        /\ \/ at' = "flush" /\ stdout' = "buffered"
           \/ at' = "end" /\ stdout' = "lost" /\ end'.code = 5
    BY <1>1 DEF WriteStdout
  <2>. QED  BY <2>1 DEF ExitTells, Ended, Delivered
<1>2. CASE Flush
  <2>1. /\ disk' = disk /\ disk.tmp = "none" /\ at' = "end"
        /\ \/ stdout' = "lost" /\ end'.code = 5 /\ ~disk.put
           \/ (stdout' = "written" \/ disk.put) /\ end'.code = 0 /\ end'.class = "none"
    BY <1>2 DEF Flush
  <2>. QED  BY <2>1 DEF ExitTells, Ended, Delivered
<1>3. CASE Bind
  <2>1. /\ disk' = disk /\ disk.out = "old" /\ disk.tmp = "none" /\ ~disk.put /\ ~disk.inPlace
        /\ config' = config /\ config.probe # "none"
        /\ \/ at' = "serving" /\ stdout' = "written"
           \/ at' = "end" /\ stdout' \in {"empty", "lost"} /\ end'.code = 5
    BY <1>3 DEF Bind
  <2>. QED  BY <2>1 DEF ExitTells, Ended, Delivered
<1>4. CASE ServeReturns
  <2>1. /\ disk' = disk /\ disk.out = "old" /\ disk.tmp = "none" /\ ~disk.put /\ ~disk.inPlace
        /\ config' = config /\ config.probe # "none" /\ stdout' = "written"
        /\ at' = "flush" \/ (at' = "end" /\ end'.code = 5)
    BY <1>4 DEF ServeReturns
  <2>. QED  BY <2>1 DEF ExitTells, Ended, Delivered
<1>. QED  BY <1>1, <1>2, <1>3, <1>4

-----------------------------------------------------------------------------
(* replace_file, its rivals and its end *)

LEMMA TemporaryKeeps ==
  ASSUME FrontInv,
         CheckDestination \/ CreateTemporary \/ FillTemporary \/ RenameTemporary \/ RemoveTemporary
  PROVE  FrontInv'
<1>. USE DEF FrontInv, Steps, Untouched, Unwritten, TemporaryOwned, OutputKept, NoStrayTemporary
<1>. USE DEF Same, Goes, Fails, Ends2, ExitIo, Before, Replacing
<1>1. CASE CheckDestination
  <2>1. /\ UNCHANGED <<disk, stdout>> /\ at = "replace"
        /\ at' \in {"open", "create"} \/ (at' = "end" /\ end'.code = 2)
    BY <1>1 DEF CheckDestination
  <2>. QED  BY <2>1 DEF ExitTells, Ended, Delivered
<1>2. CASE CreateTemporary
  <2>1. /\ stdout' = stdout /\ at = "create"
        /\ \/ at' = "fill" /\ disk' = [disk EXCEPT !.tmp = "cut"]
           \/ at' = "open" /\ disk' = disk
    BY <1>2 DEF CreateTemporary
  <2>. QED  BY <2>1 DEF ExitTells, Ended
<1>3. CASE FillTemporary
  <2>1. /\ stdout' = stdout /\ at = "fill"
        /\ \/ at' = "rename" /\ disk' = [disk EXCEPT !.tmp = "whole"]
           \/ at' = "remove" /\ disk' = disk
    BY <1>3 DEF FillTemporary
  <2>. QED  BY <2>1 DEF ExitTells, Ended
<1>4. CASE RenameTemporary
  <2>1. /\ stdout' = stdout /\ at = "rename"
        /\ \/ at' = "flush" /\ disk' = [disk EXCEPT !.out = "new", !.tmp = "none", !.put = TRUE]
           \/ at' = "remove" /\ disk' = disk
    BY <1>4 DEF RenameTemporary
  <2>. QED  BY <2>1 DEF ExitTells, Ended
<1>5. CASE RemoveTemporary
  <2>1. PICK class \in IoClasses, removed \in BOOLEAN :
           /\ stdout' = stdout /\ at = "remove" /\ at' = "end"
           /\ end' = [code |-> 2, class |-> class, named |-> ~removed]
           /\ disk' = IF removed THEN [disk EXCEPT !.tmp = "none"] ELSE disk
    BY <1>5 DEF RemoveTemporary
  <2>2. end'.code = 2 /\ (disk'.tmp = "none" \/ end'.named)
    BY <2>1
  <2>3. /\ disk'.out = disk.out /\ disk'.put = disk.put /\ disk'.inPlace = disk.inPlace
        /\ disk' \in [out : {"old", "new", "rival", "cut"}, tmp : {"none", "cut", "whole"},
                      put : BOOLEAN, inPlace : BOOLEAN]
    BY <2>1
  <2>. QED  BY <2>1, <2>2, <2>3 DEF ExitTells, Ended, Delivered
<1>. QED  BY <1>1, <1>2, <1>3, <1>4, <1>5

LEMMA DirectKeeps ==
  ASSUME FrontInv, OpenDirectly \/ PourDirectly \/ Rival \/ Kill
  PROVE  FrontInv'
<1>. USE DEF FrontInv, Steps, Untouched, Unwritten, TemporaryOwned, OutputKept, NoStrayTemporary
<1>. USE DEF Same, Goes, Fails, Ends2, ExitIo, Before, Replacing
<1>1. CASE OpenDirectly
  <2>1. /\ stdout' = stdout /\ at = "open"
        /\ \/ at' = "pour" /\ disk' = [disk EXCEPT !.out = "cut", !.inPlace = TRUE]
           \/ at' = "end" /\ disk' = disk /\ end'.code = 2
    BY <1>1 DEF OpenDirectly
  <2>2. CASE at' = "pour"
    <3>1. /\ disk'.tmp = "none" /\ ~disk'.put /\ disk'.inPlace
          /\ disk' \in [out : {"old", "new", "rival", "cut"}, tmp : {"none", "cut", "whole"},
                        put : BOOLEAN, inPlace : BOOLEAN]
      BY <2>1, <2>2
    <3>. QED  BY <2>1, <2>2, <3>1 DEF ExitTells, Ended
  <2>3. CASE at' = "end"
    BY <2>1, <2>3 DEF ExitTells, Ended, Delivered
  <2>. QED  BY <2>1, <2>2, <2>3
<1>2. CASE PourDirectly
  <2>1. /\ stdout' = stdout /\ at = "pour"
        /\ \/ /\ at' = "flush"
              /\ disk' = [disk EXCEPT !.out = IF @ = "rival" THEN @ ELSE "new", !.put = TRUE]
           \/ at' = "end" /\ disk' = disk /\ end'.code = 2
    BY <1>2 DEF PourDirectly
  <2>2. CASE at' = "flush"
    <3>1. /\ disk'.tmp = "none" /\ disk'.put /\ disk'.inPlace
          /\ disk' \in [out : {"old", "new", "rival", "cut"}, tmp : {"none", "cut", "whole"},
                        put : BOOLEAN, inPlace : BOOLEAN]
      BY <2>1, <2>2
    <3>. QED  BY <2>1, <2>2, <3>1 DEF ExitTells, Ended
  <2>3. CASE at' = "end"
    BY <2>1, <2>3 DEF ExitTells, Ended, Delivered
  <2>. QED  BY <2>1, <2>2, <2>3
<1>3. CASE Rival
  <2>1. UNCHANGED <<stdout, at>> /\ at \in Replacing /\ disk' = [disk EXCEPT !.out = "rival"]
    BY <1>3 DEF Rival
  <2>. QED  BY <2>1 DEF ExitTells, Ended
<1>4. CASE Kill
  <2>1. UNCHANGED <<stdout, disk>> /\ at \in Replacing /\ at' = "end" /\ end'.code = 137
    BY <1>4 DEF Kill
  <2>. QED  BY <2>1 DEF ExitTells, Killed
<1>. QED  BY <1>1, <1>2, <1>3, <1>4

LEMMA FrontStep ==
  ASSUME FrontInv, [Next]_allVars
  PROVE  FrontInv'
<1>1. CASE CommandStep
  BY <1>1, CommandPrepares, PreparesKeeps, StdoutKeeps, TemporaryKeeps, DirectKeeps
     DEF CommandStep
<1>2. CASE CallStep
  BY <1>2, CallPrepares, PreparesKeeps, ReturnKeeps
<1>3. CASE Sniffing \/ Watching \/ Operating \/ UNCHANGED allVars
  <2>1. UNCHANGED <<at, disk, stdout, config, end>>
    BY <1>3 DEF Sniffing, Watching, Operating, allVars, commandVars
  <2>. QED  BY <2>1 DEF FrontInv, Steps, Untouched, Unwritten, TemporaryOwned, OutputKept,
            NoStrayTemporary, ExitTells, Ended, Killed, Delivered
<1>. QED  BY <1>1, <1>2, <1>3, StdoutKeeps, DirectKeeps DEF Next

LEMMA FrontAlways == Spec => []FrontInv
<1>1. FrontInv /\ [Next]_allVars => FrontInv'
  BY FrontStep
<1>. QED  BY FrontInit, <1>1, PTL DEF Spec

-----------------------------------------------------------------------------
(* The two readings of an orientation.  A JPEG's headers are walked twice, *)
(* by sniff_jpeg up to the SOF and by jpeg_exif_payload up to the scan; in *)
(* every other type the tag that is reported is the tag that is applied.   *)

\* Where the header h at offset p leads.
LeadsTo(h, p) == IF h.k = "RST" THEN p + 2 ELSE p + 2 + h.n

\* Neither walk stops at h, unless it carries what the walk looks for.
Passable(h, p, size) ==
  /\ h.k \notin {"junk", "SOS"} /\ p + 1 < size
  /\ h.k # "RST" => h.n \in Nat /\ h.n >= 2 /\ p + 2 + h.n <= size

\* The headers before offset s are the trail of the first walk: each leads to
\* the next, the last one to s.
Trail(heads, s, size) ==
  /\ s \in Nat /\ s >= 2 /\ (s = 2 \/ 2 \in DOMAIN heads)
  /\ DOMAIN heads \subseteq Nat /\ \A p \in DOMAIN heads : p >= 2
  /\ \A p \in DOMAIN heads : p < s =>
       /\ Passable(heads[p], p, size) /\ heads[p].k # "SOF"
       /\ LeadsTo(heads[p], p) \in DOMAIN heads \cup {s}
  /\ \A p \in DOMAIN heads, q \in DOMAIN heads \cup {s} : p < q /\ q <= s => LeadsTo(heads[p], p) <= q

\* The first Exif segment before offset s stands at f.
FirstExif(heads, f, s) ==
  /\ f \in DOMAIN heads /\ f < s /\ CarriesExif(heads[f])
  /\ \A p \in DOMAIN heads : p < s /\ CarriesExif(heads[p]) => f <= p

\* What the first walk kept of the headers before s.
Kept(heads, s, m) ==
  IF m.exif THEN \E f \in DOMAIN heads : FirstExif(heads, f, s) /\ m.tag = heads[f].v
  ELSE m.tag = NoTag /\ \A p \in DOMAIN heads : p < s => ~CarriesExif(heads[p])

FirstWalk ==
  /\ Trail(head, walk.at, file.size) /\ Kept(head, walk.at, meta) /\ meta.applied = NoTag
  /\ \A p \in DOMAIN head : p < walk.at

\* The second walk is on the trail of the first, which ended at s, or past s,
\* and has not passed the segment that was kept.
Follows(s) ==
  /\ Trail(head, s, file.size) /\ Kept(head, s, meta) /\ meta.applied = NoTag
  /\ head[s].k = "SOF" /\ Passable(head[s], s, file.size)
  /\ walk.at \in Nat /\ (walk.at <= s => walk.at \in DOMAIN head)
  /\ \A f \in DOMAIN head : FirstExif(head, f, s) => walk.at <= f
  /\ \A p \in DOMAIN head : p <= s \/ p < walk.at

SecondWalk == \E s \in DOMAIN head : Follows(s)

\* The inductive invariant.
SniffInv ==
  /\ file.size \in Nat /\ DOMAIN meta = DOMAIN NoMeta
  /\ sniffed = "ok" => walk.name = "end"
  /\ walk.name = "detect" => head = <<>> /\ meta = NoMeta
  /\ walk.name = "jpeg" => file.type = "jpeg" /\ FirstWalk
  /\ walk.name = "jpegexif" => file.type = "jpeg" /\ SecondWalk
  /\ walk.name = "end" => TagsAgree
  /\ walk.name \notin {"jpeg", "jpegexif", "end"} => meta.tag = meta.applied

LEMMA SniffStarts == Init => SniffInv
<1>. SUFFICES ASSUME Init PROVE SniffInv
  OBVIOUS
<1>1. file.size \in Nat
  BY JobsAssumption DEF Init, CommandInit
<1>. QED  BY <1>1 DEF Init, SniffInit, SniffInv, NoMeta

\* Nothing but the sniff itself changes what it has read.
LEMMA OthersLeaveSniff ==
  ASSUME CommandStep \/ CallStep \/ Watching \/ Operating \/ ServeReturns \/ Rival \/ Kill
  PROVE  UNCHANGED sniffVars
<1>1. CASE CommandStep
  <2>1. CASE ParseArgs \/ WriteStdout \/ Flush
    BY <2>1 DEF ParseArgs, WriteStdout, Flush, Same
  <2>2. CASE ReadInput \/ ReadWatermark \/ SniffWatermark \/ RunTransform
    BY <2>2 DEF ReadInput, ReadWatermark, SniffWatermark, RunTransform, Same
  <2>6. CASE Hop
    <3>1. sniffVars' = sniffVars
      BY ONLY <2>6, Zenon DEF Hop, Same
    <3>. QED  BY <3>1
  <2>7. CASE Sniffed
    BY <2>7 DEF Sniffed, Same
  <2>3. CASE CheckDestination \/ CreateTemporary \/ FillTemporary \/ RenameTemporary \/ RemoveTemporary
    BY <2>3 DEF CheckDestination, CreateTemporary, FillTemporary, RenameTemporary, RemoveTemporary, Same
  <2>4. CASE OpenDirectly \/ PourDirectly
    BY <2>4 DEF OpenDirectly, PourDirectly, Same
  <2>5. CASE ResolveConfig \/ Bind
    BY <2>5 DEF ResolveConfig, Bind, Same, sniffVars
  <2>. QED  BY <1>1, <2>1, <2>2, <2>3, <2>4, <2>5, <2>6, <2>7 DEF CommandStep
<1>2. CASE CallStep
  BY <1>2 DEF CallStep, CallStarts, CallDeclares, CallSniffed, CallOptions, CallWatermark, CallTransforms, Same
<1>3. CASE Watching \/ Operating \/ ServeReturns \/ Rival \/ Kill
  BY <1>3 DEF Watching, Operating, ServeReturns, Rival, Kill, Same, sniffVars
<1>. QED  BY <1>1, <1>2, <1>3

\* A header that is read stays where it was found.
LEMMA ReadingFacts ==
  ASSUME NEW h, Reading(h)
  PROVE  /\ DOMAIN head' = DOMAIN head \cup {walk.at}
         /\ \A p \in DOMAIN head : head'[p] = head[p]
         /\ walk.at \notin DOMAIN head => head'[walk.at] = h
BY DEF Reading

LEMMA ReadsFacts ==
  ASSUME NEW h \in Reads(walk.at), file.type = "jpeg"
  PROVE  /\ walk.at \in DOMAIN head => h = head[walk.at]
         /\ walk.at \notin DOMAIN head /\ h.k \notin {"junk", "SOS", "RST"} => h.n \in Nat
<1>1. CASE walk.at \in DOMAIN head
  BY <1>1 DEF Reads
<1>2. CASE walk.at \notin DOMAIN head
  <2>1. PICK kind \in KindsOf(file.type) : h \in [k : {kind}, n : LengthsOf(kind), v : ValuesOf(kind)]
    BY <1>2 DEF Reads, Headers
  <2>2. kind \in {"junk", "SOF", "APP1", "SOS", "RST", "segment"}
    BY <2>1 DEF KindsOf
  <2>3. h.k = kind /\ h.n \in LengthsOf(kind)
    BY <2>1
  <2>4. kind \notin {"junk", "SOS", "RST"} => h.n \in ChunkLengths["jpeg"]
    BY <2>2, <2>3 DEF LengthsOf
  <2>. QED  BY <1>2, <2>3, <2>4, LengthsAssumption
<1>. QED  BY <1>1, <1>2

-----------------------------------------------------------------------------
(* The types whose tag is read once *)

\* A step of a walk that leaves the reported and the applied tag the same.
ReadsOnce ==
  /\ file' = file /\ DOMAIN meta' = DOMAIN meta /\ meta'.tag = meta'.applied
  /\ walk'.name \notin {"detect", "jpeg", "jpegexif"}
  /\ sniffed' = "ok" => walk'.name = "end"

LEMMA OnceKeeps ==
  ASSUME SniffInv, ReadsOnce
  PROVE  SniffInv'
BY DEF SniffInv, ReadsOnce, TagsAgree

LEMMA ReadOnce ==
  ASSUME SniffInv,
         \/ SniffPng \/ PngAncillary \/ PngExif \/ SniffWebp \/ WebpExif \/ CountFrames
         \/ SniffGif \/ SkipSubBlock \/ SniffBmp \/ SniffTiff \/ TiffEntry \/ SvgProlog \/ SniffSvg
  PROVE  ReadsOnce
<1>1. /\ DOMAIN meta = {"size", "frames", "alpha", "exif", "tag", "applied"}
      /\ sniffed = "ok" => walk.name = "end"
      /\ walk.name \notin {"jpeg", "jpegexif", "end"} => meta.tag = meta.applied
  BY DEF SniffInv, NoMeta
<1>tagged. ASSUME NEW v
           PROVE  Tagged(v).tag = Tagged(v).applied /\ DOMAIN Tagged(v) = DOMAIN meta
  BY ONLY <1>1 DEF Tagged
<1>2. CASE SniffPng
  BY ONLY <1>1, <1>2 DEF SniffPng, ReadsOnce, Go, Ends, EndSniff
<1>3. CASE PngAncillary
  BY ONLY <1>1, <1>3 DEF PngAncillary, ReadsOnce, Go, Ends, EndSniff
<1>4. CASE PngExif
  <2>1. walk.name = "pngexif"
    BY ONLY <1>4 DEF PngExif
  <2>2. CASE EndSniff("ok")
    BY ONLY <1>1, <2>1, <2>2 DEF ReadsOnce, EndSniff, Ends
  <2>3. CASE ~EndSniff("ok")
    <3>1. PICK h :
            IF walk.at + 8 + h.n > file.size \/ h.k \in {"eXIf", "IEND"}
            THEN /\ Ends("ok")
                 /\ meta' = IF walk.at + 8 + h.n <= file.size /\ h.k = "eXIf"
                            THEN Tagged(h.v) ELSE meta
            ELSE Go("pngexif", walk.at + 12 + h.n) /\ meta' = meta
      BY ONLY <1>4, <2>3 DEF PngExif
    <3>. QED  BY ONLY <1>1, <1>tagged, <2>1, <3>1 DEF ReadsOnce, Go, Ends
  <2>. QED  BY <2>2, <2>3
<1>5. CASE SniffWebp
  BY ONLY <1>1, <1>5 DEF SniffWebp, ReadsOnce, Go, Ends, EndSniff
<1>6. CASE WebpExif
  <2>. DEFINE next == Go("frames", 12) \/ Ends("ok")
  <2>1. walk.name = "webpexif"
    BY ONLY <1>6 DEF WebpExif
  <2>2. CASE next /\ meta' = meta
    BY ONLY <1>1, <2>1, <2>2 DEF ReadsOnce, Go, Ends
  <2>3. CASE ~(next /\ meta' = meta)
    <3>1. PICK h :
            \/ next /\ meta' = Tagged(h.v)
            \/ Go("webpexif", ChunkEnd(h) + Padding(h)) /\ meta' = meta
      BY ONLY <1>6, <2>3 DEF WebpExif
    <3>. QED  BY ONLY <1>1, <1>tagged, <2>1, <3>1 DEF ReadsOnce, Go, Ends
  <2>. QED  BY <2>2, <2>3
<1>7. CASE CountFrames
  BY ONLY <1>1, <1>7 DEF CountFrames, ReadsOnce, Go, Ends, EndSniff
<1>8. CASE SniffGif
  <2>1. walk.name = "gif"
    BY ONLY <1>8 DEF SniffGif
  <2>2. CASE \E outcome : EndSniff(outcome)
    BY ONLY <1>1, <2>1, <2>2 DEF ReadsOnce, EndSniff, Ends
  <2>3. CASE ~\E outcome : EndSniff(outcome)
    <3>1. PICK h :
            \/ /\ meta' = IF h.k = "control" /\ walk.at + 4 < file.size /\ h.n >= 1 /\ h.v = 1
                          THEN [meta EXCEPT !.alpha = TRUE] ELSE meta
               /\ Go("subblock", walk.at + 2)
            \/ Ends("ok") /\ meta' = [meta EXCEPT !.frames = @ + 1]
            \/ meta' = [meta EXCEPT !.frames = @ + 1] /\ Go("subblock", walk.at + 11 + h.v)
      BY ONLY <1>8, <2>3 DEF SniffGif, GifEnds
    <3>. QED  BY ONLY <1>1, <1>tagged, <2>1, <3>1 DEF ReadsOnce, Go, Ends
  <2>. QED  BY <2>2, <2>3
<1>9. CASE SkipSubBlock
  BY ONLY <1>1, <1>9 DEF SkipSubBlock, ReadsOnce, Go, Ends, EndSniff
<1>10. CASE SniffBmp \/ SniffTiff
  BY ONLY <1>1, <1>10 DEF SniffBmp, SniffTiff, ReadsOnce, Go, Ends, EndSniff
<1>11. CASE TiffEntry
  <2>1. walk.name = "ifd"
    BY ONLY <1>11 DEF TiffEntry
  <2>2. CASE EndSniff("ok")
    BY ONLY <1>1, <2>1, <2>2 DEF ReadsOnce, EndSniff, Ends
  <2>3. CASE ~EndSniff("ok")
    <3>1. \/ Go("ifd", walk.at + 12) /\ meta' = meta
          \/ Ends("ok") /\ \E tag : meta' = Tagged(tag)
      BY ONLY <1>11, <2>3 DEF TiffEntry
    <3>2. CASE Go("ifd", walk.at + 12) /\ meta' = meta
      BY ONLY <1>1, <2>1, <3>2 DEF ReadsOnce, Go
    <3>3. CASE Ends("ok") /\ \E tag : meta' = Tagged(tag)
      <4>1. PICK tag : meta' = Tagged(tag)
        BY <3>3
      <4>. QED  BY ONLY <1>1, <1>tagged, <2>1, <3>3, <4>1 DEF ReadsOnce, Ends
    <3>. QED  BY <3>1, <3>2, <3>3
  <2>. QED  BY <2>2, <2>3
<1>12. CASE SvgProlog
  BY ONLY <1>1, <1>12 DEF SvgProlog, ReadsOnce, Go, Ends, EndSniff
<1>13. CASE SniffSvg
  BY ONLY <1>1, <1>13 DEF SniffSvg, ReadsOnce, Go, Ends, EndSniff
<1>. QED  BY <1>2, <1>3, <1>4, <1>5, <1>6, <1>7, <1>8, <1>9, <1>10, <1>11, <1>12, <1>13

-----------------------------------------------------------------------------
(* The walks of a JPEG *)

\* Reading a header at w leaves the headers before s as they were.
LEMMA TrailStays ==
  ASSUME NEW H, NEW G, NEW w \in Nat, NEW s, NEW size \in Nat, Trail(H, s, size),
         DOMAIN G = DOMAIN H \cup {w}, \A p \in DOMAIN H : G[p] = H[p], w \in DOMAIN H \/ w >= s
  PROVE  Trail(G, s, size)
<1>1. /\ s \in Nat /\ s >= 2 /\ (s = 2 \/ 2 \in DOMAIN G)
      /\ DOMAIN G \subseteq Nat /\ \A p \in DOMAIN G : p >= 2
  BY DEF Trail
<1>2. ASSUME NEW p \in DOMAIN G, p < s
      PROVE  p \in DOMAIN H /\ G[p] = H[p]
  BY <1>1, <1>2
<1>3. ASSUME NEW p \in DOMAIN G, p < s
      PROVE  /\ Passable(G[p], p, size) /\ G[p].k # "SOF"
             /\ LeadsTo(G[p], p) \in DOMAIN G \cup {s}
  BY <1>2, <1>3 DEF Trail
<1>4. ASSUME NEW p \in DOMAIN G, NEW q \in DOMAIN G \cup {s}, p < q, q <= s
      PROVE  LeadsTo(G[p], p) <= q
  <2>1. p < s /\ q \in DOMAIN H \cup {s}
    BY <1>1, <1>4
  <2>. QED  BY <1>2, <1>4, <2>1 DEF Trail
<1>. QED  BY <1>1, <1>3, <1>4 DEF Trail

LEMMA FirstStays ==
  ASSUME NEW H, NEW G, NEW w \in Nat, NEW s \in Nat, DOMAIN H \subseteq Nat,
         DOMAIN G = DOMAIN H \cup {w}, \A p \in DOMAIN H : G[p] = H[p], w \in DOMAIN H \/ w >= s
  PROVE  /\ \A f : FirstExif(G, f, s) <=> FirstExif(H, f, s)
         /\ \A m : Kept(H, s, m) => Kept(G, s, m)
<1>1. ASSUME NEW p
      PROVE  p \in DOMAIN G /\ p < s <=> p \in DOMAIN H /\ p < s
  OBVIOUS
<1>2. ASSUME NEW p \in DOMAIN H
      PROVE  CarriesExif(G[p]) <=> CarriesExif(H[p])
  OBVIOUS
<1>3. ASSUME NEW f
      PROVE  FirstExif(G, f, s) <=> FirstExif(H, f, s)
  BY <1>1, <1>2 DEF FirstExif
<1>4. ASSUME NEW m, Kept(H, s, m)
      PROVE  Kept(G, s, m)
  <2>1. CASE m.exif
    <3>1. PICK f \in DOMAIN H : FirstExif(H, f, s) /\ m.tag = H[f].v
      BY <1>4, <2>1 DEF Kept
    <3>2. f \in DOMAIN G /\ FirstExif(G, f, s) /\ m.tag = G[f].v
      BY <1>3, <3>1
    <3>. QED  BY <2>1, <3>2 DEF Kept
  <2>2. CASE ~m.exif
    <3>1. m.tag = NoTag /\ \A p \in DOMAIN H : p < s => ~CarriesExif(H[p])
      BY <1>4, <2>2 DEF Kept
    <3>2. \A p \in DOMAIN G : p < s => ~CarriesExif(G[p])
      BY <1>1, <1>2, <3>1
    <3>. QED  BY <2>2, <3>1, <3>2 DEF Kept
  <2>. QED  BY <2>1, <2>2
<1>. QED  BY <1>3, <1>4

\* A header that the first walk passes becomes the end of its trail.
LEMMA TrailGrows ==
  ASSUME NEW H, NEW G, NEW w, NEW h, NEW size \in Nat, Trail(H, w, size), \A p \in DOMAIN H : p < w,
         DOMAIN G = DOMAIN H \cup {w}, \A p \in DOMAIN H : G[p] = H[p], G[w] = h,
         Passable(h, w, size), h.k # "SOF"
  PROVE  /\ Trail(G, LeadsTo(h, w), size)
         /\ \A p \in DOMAIN G : p < LeadsTo(h, w)
<1>1. PICK n : n = LeadsTo(h, w)
  OBVIOUS
<1>2. w \in Nat /\ w >= 2 /\ n \in Nat /\ n > w
  BY <1>1 DEF Trail, LeadsTo, Passable
<1>3. /\ DOMAIN G \subseteq Nat /\ 2 \in DOMAIN G /\ \A p \in DOMAIN G : p >= 2
      /\ \A p \in DOMAIN G : p < n
  BY <1>2 DEF Trail
<1>4. ASSUME NEW p \in DOMAIN G
      PROVE  /\ Passable(G[p], p, size) /\ G[p].k # "SOF"
             /\ LeadsTo(G[p], p) \in DOMAIN G \cup {n}
  <2>1. CASE p = w
    BY <1>1, <2>1
  <2>2. CASE p # w
    <3>1. p \in DOMAIN H /\ p < w /\ G[p] = H[p]
      BY <2>2
    <3>. QED  BY <3>1 DEF Trail
  <2>. QED  BY <2>1, <2>2
<1>5. ASSUME NEW p \in DOMAIN G, NEW q \in DOMAIN G \cup {n}, p < q
      PROVE  LeadsTo(G[p], p) <= q
  <2>1. CASE p = w
    <3>1. q = n
      BY <1>2, <1>3, <1>5, <2>1
    <3>. QED  BY <1>1, <1>2, <2>1, <3>1
  <2>2. CASE p # w
    <3>1. p \in DOMAIN H /\ p < w /\ G[p] = H[p]
      BY <2>2
    <3>2. LeadsTo(H[p], p) <= w
      BY <1>2, <3>1 DEF Trail
    <3>3. LeadsTo(H[p], p) \in Nat
      BY <1>3, <3>1 DEF Trail, LeadsTo, Passable
    <3>4. CASE q \in DOMAIN H
      BY <1>5, <3>1, <3>4 DEF Trail
    <3>5. CASE q \in {w, n}
      BY <1>2, <3>1, <3>2, <3>3, <3>5
    <3>. QED  BY <3>4, <3>5
  <2>. QED  BY <2>1, <2>2
<1>6. Trail(G, n, size)
  BY <1>2, <1>3, <1>4, <1>5 DEF Trail
<1>. QED  BY <1>1, <1>3, <1>6

\* exif_payload.is_none(): what is kept is the first Exif segment.
LEMMA KeptGrows ==
  ASSUME NEW H, NEW G, NEW w \in Nat, NEW n \in Nat, n > w, NEW h, \A p \in DOMAIN H : p \in Nat /\ p < w,
         DOMAIN G = DOMAIN H \cup {w}, \A p \in DOMAIN H : G[p] = H[p], G[w] = h,
         DOMAIN meta = DOMAIN NoMeta, Kept(H, w, meta)
  PROVE  Kept(G, n, KeepExif(h)) /\ KeepExif(h).applied = meta.applied
<1>1. CASE CarriesExif(h) /\ ~meta.exif
  <2>1. /\ KeepExif(h).exif /\ KeepExif(h).tag = h.v /\ KeepExif(h).applied = meta.applied
    BY <1>1 DEF KeepExif, NoMeta
  <2>2. FirstExif(G, w, n)
    BY <1>1 DEF FirstExif, Kept
  <2>. QED  BY <2>1, <2>2 DEF Kept
<1>2. CASE meta.exif
  <2>1. KeepExif(h) = meta
    BY <1>2 DEF KeepExif
  <2>2. PICK f \in DOMAIN H : FirstExif(H, f, w) /\ meta.tag = H[f].v
    BY <1>2 DEF Kept
  <2>3. FirstExif(G, f, n) /\ meta.tag = G[f].v
    BY <2>2 DEF FirstExif
  <2>. QED  BY <1>2, <2>1, <2>3 DEF Kept
<1>3. CASE ~CarriesExif(h) /\ ~meta.exif
  <2>1. KeepExif(h) = meta
    BY <1>3 DEF KeepExif
  <2>. QED  BY <1>3, <2>1 DEF Kept
<1>. QED  BY <1>1, <1>2, <1>3

LEMMA DetectKeeps ==
  ASSUME SniffInv, Detect
  PROVE  SniffInv'
<1>1. /\ walk.name = "detect" /\ head = <<>> /\ meta = NoMeta /\ sniffed # "ok" /\ file.size \in Nat
  BY DEF SniffInv, Detect
<1>2. NoMeta.tag = NoMeta.applied /\ NoMeta.tag = NoTag /\ ~NoMeta.exif
  BY DEF NoMeta
<1>3. CASE \E outcome : EndSniff(outcome)
  <2>1. walk'.name = "end" /\ file' = file /\ meta' = meta
    BY ONLY <1>3 DEF EndSniff, Ends
  <2>2. ReadsOnce
    BY ONLY <1>1, <1>2, <2>1 DEF ReadsOnce
  <2>. QED  BY <2>2, OnceKeeps
<1>4. CASE Go("svg", 1) /\ UNCHANGED <<head, meta>>
  <2>1. ReadsOnce
    BY ONLY <1>1, <1>2, <1>4 DEF ReadsOnce, Go
  <2>. QED  BY <2>1, OnceKeeps
<1>5. CASE ~(\E outcome : EndSniff(outcome)) /\ ~(Go("svg", 1) /\ UNCHANGED <<head, meta>>)
  <2>1. /\ file.type \in DOMAIN SignatureLength
        /\ Go(file.type, CASE file.type = "jpeg" -> 2 [] file.type = "webp" -> 12
                           [] file.type = "gif" -> 13 + file.table [] OTHER -> 0)
        /\ meta' = IF file.type = "gif" THEN [meta EXCEPT !.frames = 0] ELSE meta
        /\ UNCHANGED head
    BY ONLY <1>5, Detect DEF Detect
  <2>2. file.type \in {"png", "jpeg", "webp", "avif", "bmp", "tiff", "gif"}
    BY <2>1 DEF SignatureLength
  <2>3. CASE file.type # "jpeg"
    <3>1. /\ walk'.name = file.type /\ file' = file /\ sniffed' = sniffed
      BY <2>1 DEF Go
    <3>2. /\ DOMAIN meta' = DOMAIN meta /\ meta'.tag = meta'.applied
      BY <1>1, <2>1 DEF NoMeta
    <3>3. ReadsOnce
      BY ONLY <1>1, <2>2, <2>3, <3>1, <3>2 DEF ReadsOnce
    <3>. QED  BY <3>3, OnceKeeps
  <2>4. CASE file.type = "jpeg"
    <3>1. /\ walk'.name = "jpeg" /\ walk'.at = 2 /\ file' = file /\ sniffed' = sniffed
          /\ head' = <<>> /\ meta' = NoMeta
      BY <1>1, <2>1, <2>4 DEF Go
    <3>2. DOMAIN head' = {}
      BY <3>1
    <3>3. Trail(head', 2, file'.size) /\ Kept(head', 2, meta')
      BY <1>2, <3>1, <3>2 DEF Trail, Kept
    <3>4. FirstWalk'
      BY <1>2, <3>1, <3>2, <3>3 DEF FirstWalk
    <3>. QED  BY ONLY <1>1, <2>4, <3>1, <3>4 DEF SniffInv
  <2>. QED  BY <2>3, <2>4
<1>. QED  BY <1>3, <1>4, <1>5

\* The end of a sniff that took no tag from where the other walk did not.
LEMMA SniffEnds ==
  ASSUME SniffInv, NEW outcome, Ends(outcome), DOMAIN meta' = DOMAIN meta, outcome # "ok" \/ TagsAgree'
  PROVE  SniffInv'
<1>1. walk'.name = "end" /\ file' = file /\ sniffed' = Verdict(outcome)
  BY DEF Ends
<1>2. outcome # "ok" => sniffed' # "ok"
  BY <1>1 DEF Verdict
<1>3. TagsAgree'
  BY <1>2 DEF TagsAgree
<1>. QED  BY ONLY SniffInv, <1>1, <1>3, DOMAIN meta' = DOMAIN meta DEF SniffInv

LEMMA SniffJpegKeeps ==
  ASSUME SniffInv, SniffJpeg
  PROVE  SniffInv'
<1>1. /\ walk.name = "jpeg" /\ file.type = "jpeg" /\ file.size \in Nat /\ sniffed # "ok"
      /\ DOMAIN meta = DOMAIN NoMeta /\ FirstWalk
  BY DEF SniffJpeg, SniffInv
<1>2. CASE EndSniff("DecodeFailed")
  BY <1>2, SniffEnds DEF EndSniff
<1>3. CASE ~EndSniff("DecodeFailed")
  <2>1. walk.at + 1 < file.size
    BY <1>1, <1>3 DEF SniffJpeg, FirstWalk, Trail
  <2>2. PICK h \in Reads(walk.at) :
          /\ Reading(h)
          /\ \/ h.k = "RST" /\ Go("jpeg", AfterStandalone(walk.at)) /\ meta' = meta
             \/ /\ h.k \notin {"RST", "junk", "SOS"} /\ ~SegmentBad(h)
                /\ meta' = KeepExif(h)
                /\ IF h.k = "SOF" THEN Go("jpegexif", 2) ELSE Go("jpeg", walk.at + 2 + h.n)
    BY <1>1, <1>3, <2>1 DEF SniffJpeg, FirstWalk, Trail
  <2>3. PICK w : w = walk.at
    OBVIOUS
  <2>4. w \in Nat /\ DOMAIN head \subseteq Nat /\ w \notin DOMAIN head /\ \A p \in DOMAIN head : p < w
    BY <1>1, <2>3 DEF FirstWalk, Trail
  <2>5. /\ DOMAIN head' = DOMAIN head \cup {w} /\ head'[w] = h
        /\ \A p \in DOMAIN head : head'[p] = head[p]
    BY <2>2, <2>3, <2>4, ReadingFacts
  <2>6. h.k # "RST" => h.n \in Nat
    BY <1>1, <2>2, <2>3, <2>4, ReadsFacts
  <2>7. Passable(h, w, file.size)
    BY <1>1, <2>1, <2>2, <2>3, <2>4, <2>6 DEF Passable, SegmentBad
  <2>8. file' = file /\ sniffed' = sniffed
    BY <2>2 DEF Go
  <2>9. Trail(head, w, file.size) /\ Kept(head, w, meta) /\ meta.applied = NoTag
    BY <1>1, <2>3 DEF FirstWalk
  <2>10. meta' = KeepExif(h)
    BY <2>2 DEF KeepExif, CarriesExif
  <2>11. LeadsTo(h, w) \in Nat /\ LeadsTo(h, w) > w
    BY <2>4, <2>6 DEF LeadsTo
  <2>12. /\ \A n \in Nat : n > w => Kept(head', n, meta')
         /\ meta'.applied = NoTag
    <3>1. ASSUME NEW n \in Nat, n > w
          PROVE  Kept(head', n, KeepExif(h)) /\ KeepExif(h).applied = meta.applied
      BY ONLY <1>1, <2>4, <2>5, <2>9, <3>1, KeptGrows
    <3>. QED  BY ONLY <2>9, <2>10, <2>11, <3>1
  <2>13. DOMAIN meta' = DOMAIN NoMeta
    BY <1>1, <2>10 DEF KeepExif
  <2>14. CASE h.k # "SOF"
    <3>1. walk'.name = "jpeg" /\ walk'.at = LeadsTo(h, w)
      BY <2>2, <2>3, <2>14 DEF Go, LeadsTo, AfterStandalone
    <3>2. Trail(head', LeadsTo(h, w), file.size) /\ \A p \in DOMAIN head' : p < LeadsTo(h, w)
      BY ONLY <1>1, <2>4, <2>5, <2>7, <2>9, <2>14, TrailGrows
    <3>3. FirstWalk'
      BY ONLY <2>8, <2>11, <2>12, <3>1, <3>2 DEF FirstWalk
    <3>. QED  BY ONLY <1>1, <2>8, <2>13, <3>1, <3>3 DEF SniffInv
  <2>15. CASE h.k = "SOF"
    <3>1. walk'.name = "jpegexif" /\ walk'.at = 2
      BY <2>2, <2>15 DEF Go
    <3>2. Trail(head', w, file.size) /\ Kept(head', w, meta)
      <4>1. w >= w
        BY <2>4
      <4>2. Trail(head', w, file.size)
        BY ONLY <1>1, <2>4, <2>5, <2>9, <4>1, TrailStays
      <4>3. \A m : Kept(head, w, m) => Kept(head', w, m)
        BY ONLY <2>4, <2>5, <4>1, FirstStays
      <4>. QED  BY <2>9, <4>2, <4>3
    <3>3. meta' = meta
      BY <2>10, <2>15 DEF KeepExif, CarriesExif
    <3>4. 2 \in DOMAIN head' /\ w >= 2
      BY <2>5, <2>9 DEF Trail
    <3>5. \A f \in DOMAIN head' : FirstExif(head', f, w) => 2 <= f
      BY <3>2 DEF Trail
    <3>6. \A p \in DOMAIN head' : p <= w
      BY <2>4, <2>5
    <3>8. Follows(w)'
      BY ONLY <2>5, <2>7, <2>8, <2>12, <2>15, <3>1, <3>2, <3>3, <3>4, <3>5, <3>6 DEF Follows
    <3>7. SecondWalk'
      BY <2>5, <3>8 DEF SecondWalk
    <3>. QED  BY ONLY <1>1, <2>8, <2>13, <3>1, <3>7 DEF SniffInv
  <2>. QED  BY <2>14, <2>15
<1>. QED  BY <1>2, <1>3

\* On the trail the second walk finds what the first one passed.
LEMMA OnTrail ==
  ASSUME NEW s \in DOMAIN head, Follows(s), walk.at <= s
  PROVE  /\ walk.at \in DOMAIN head /\ Passable(head[walk.at], walk.at, file.size)
         /\ walk.at = s => LeadsTo(head[s], s) \in Nat /\ LeadsTo(head[s], s) > s /\ ~CarriesExif(head[s])
         /\ walk.at < s =>
              /\ LeadsTo(head[walk.at], walk.at) \in DOMAIN head
              /\ \A f \in DOMAIN head :
                   FirstExif(head, f, s) /\ f # walk.at => LeadsTo(head[walk.at], walk.at) <= f
<1>1. PICK w : w = walk.at
  OBVIOUS
<1>2. /\ Trail(head, s, file.size) /\ head[s].k = "SOF" /\ Passable(head[s], s, file.size)
      /\ w \in Nat /\ w \in DOMAIN head /\ w <= s /\ s \in Nat
      /\ \A f \in DOMAIN head : FirstExif(head, f, s) => w <= f
  BY <1>1 DEF Follows, Trail
<1>3. CASE w = s
  <2>1. LeadsTo(head[s], s) \in Nat /\ LeadsTo(head[s], s) > s
    BY ONLY <1>2, <1>3 DEF LeadsTo, Passable
  <2>2. ~CarriesExif(head[s])
    BY ONLY <1>2 DEF CarriesExif
  <2>. QED  BY ONLY <1>1, <1>2, <1>3, <2>1, <2>2
<1>4. CASE w < s
  <2>1. Passable(head[w], w, file.size) /\ LeadsTo(head[w], w) \in DOMAIN head
    BY ONLY <1>2, <1>4, s \in DOMAIN head DEF Trail
  <2>2. ASSUME NEW f \in DOMAIN head, FirstExif(head, f, s), f # w
        PROVE  LeadsTo(head[w], w) <= f
    <3>1. f \in Nat /\ f < s /\ w < f
      BY ONLY <1>2, <2>2 DEF Trail, FirstExif
    <3>. QED  BY ONLY <1>2, <2>2, <3>1 DEF Trail
  <2>. QED  BY ONLY <1>1, <1>2, <1>4, <2>1, <2>2
<1>. QED  BY <1>2, <1>3, <1>4

LEMMA JpegExifKeeps ==
  ASSUME SniffInv, JpegExif
  PROVE  SniffInv'
<1>1. /\ walk.name = "jpegexif" /\ file.type = "jpeg" /\ file.size \in Nat /\ sniffed # "ok"
      /\ DOMAIN meta = DOMAIN NoMeta
  BY DEF JpegExif, SniffInv
<1>2. PICK s \in DOMAIN head : Follows(s)
  BY <1>1 DEF SniffInv, SecondWalk
<1>3. PICK w : w = walk.at
  OBVIOUS
<1>4. /\ Trail(head, s, file.size) /\ Kept(head, s, meta) /\ meta.applied = NoTag
      /\ head[s].k = "SOF" /\ Passable(head[s], s, file.size)
      /\ w \in Nat /\ s \in Nat /\ DOMAIN head \subseteq Nat
      /\ \A f \in DOMAIN head : FirstExif(head, f, s) => w <= f
  BY <1>2, <1>3 DEF Follows, Trail
<1>5. w > s => ~meta.exif /\ meta.tag = NoTag
  BY ONLY <1>4 DEF Kept, FirstExif
<1>6. w > s => w \notin DOMAIN head
  BY <1>2, <1>3, <1>4 DEF Follows
<1>7. w <= s => w \in DOMAIN head /\ Passable(head[w], w, file.size)
  BY <1>2, <1>3, OnTrail
<1>8. CASE walk.at + 1 >= file.size
  <2>1. w > s
    BY ONLY <1>1, <1>3, <1>4, <1>7, <1>8 DEF Passable
  <2>2. Ends("ok") /\ meta' = meta
    BY <1>8 DEF JpegExif, EndSniff
  <2>3. TagsAgree'
    BY <1>4, <1>5, <2>1, <2>2 DEF TagsAgree
  <2>. QED  BY <2>2, <2>3, SniffEnds
<1>9. CASE ~(walk.at + 1 >= file.size)
  <2>1. PICK h \in Reads(walk.at) :
          IF h.k = "RST" THEN Reading(h) /\ Go("jpegexif", AfterStandalone(walk.at)) /\ meta' = meta
          ELSE IF h.k \in {"junk", "SOS"} \/ SegmentBad(h) THEN EndSniff("ok")
          ELSE IF CarriesExif(h)
          THEN Reading(h) /\ meta' = [meta EXCEPT !.applied = h.v] /\ Ends("ok")
          ELSE Reading(h) /\ meta' = meta /\ Go("jpegexif", walk.at + 2 + h.n)
    BY ONLY <1>9, JpegExif DEF JpegExif
  <2>2. w \in DOMAIN head => h = head[w]
    BY <1>1, <1>3, ReadsFacts
  <2>3. CASE h.k # "RST" /\ (h.k \in {"junk", "SOS"} \/ SegmentBad(h))
    <3>1. w > s
      <4>. SUFFICES ASSUME w <= s PROVE FALSE
        BY <1>4
      <4>1. Passable(h, w, file.size)
        BY <1>7, <2>2
      <4>. QED  BY ONLY <1>1, <1>3, <1>4, <2>3, <4>1 DEF Passable, SegmentBad
    <3>2. Ends("ok") /\ meta' = meta
      BY <2>1, <2>3 DEF EndSniff
    <3>3. TagsAgree'
      BY <1>4, <1>5, <3>1, <3>2 DEF TagsAgree
    <3>. QED  BY <3>2, <3>3, SniffEnds
  <2>4. CASE ~(h.k # "RST" /\ (h.k \in {"junk", "SOS"} \/ SegmentBad(h)))
    <3>1. Reading(h)
      BY <2>1, <2>4
    <3>2. /\ DOMAIN head' = DOMAIN head \cup {w} /\ head'[w] = h
          /\ \A p \in DOMAIN head : head'[p] = head[p]
      BY <1>3, <2>2, <3>1, ReadingFacts
    <3>3. CASE CarriesExif(h)
      <4>1. meta' = [meta EXCEPT !.applied = h.v] /\ Ends("ok")
        BY <2>1, <2>4, <3>3 DEF CarriesExif
      <4>2. meta'.applied = h.v /\ meta'.tag = meta.tag /\ meta'.exif = meta.exif
            /\ DOMAIN meta' = DOMAIN meta
        BY <1>1, <4>1 DEF NoMeta
      <4>3. CASE w <= s
        <5>1. h = head[w] /\ w \in DOMAIN head /\ w # s
          BY ONLY <1>4, <1>7, <2>2, <3>3, <4>3 DEF CarriesExif
        <5>2. meta.exif
          BY ONLY <1>4, <3>3, <4>3, <5>1 DEF Kept
        <5>3. PICK f \in DOMAIN head : FirstExif(head, f, s) /\ meta.tag = head[f].v
          BY ONLY <1>4, <5>2 DEF Kept
        <5>4. f <= w /\ w <= f
          BY ONLY <1>4, <3>3, <4>3, <5>1, <5>3 DEF FirstExif
        <5>5. f = w
          BY ONLY <1>4, <5>3, <5>4
        <5>6. TagsAgree'
          BY ONLY <4>2, <5>1, <5>3, <5>5 DEF TagsAgree
        <5>. QED  BY <4>1, <4>2, <5>6, SniffEnds
      <4>4. CASE w > s
        <5>1. s \in DOMAIN head' /\ w \in DOMAIN head' /\ s < w /\ head'[s].k = "SOF" /\ CarriesExif(head'[w])
          BY <1>4, <3>2, <3>3, <4>4
        <5>2. file'.type = "jpeg" /\ ~meta'.exif
          BY <1>1, <1>5, <4>1, <4>2, <4>4 DEF Ends
        <5>3. TagsAgree'
          BY ONLY <5>1, <5>2 DEF TagsAgree
        <5>. QED  BY <4>1, <4>2, <5>3, SniffEnds
      <4>. QED  BY <1>4, <4>3, <4>4
    <3>4. CASE ~CarriesExif(h)
      <4>1. PICK n : n = LeadsTo(h, w)
        OBVIOUS
      <4>2. meta' = meta /\ walk'.name = "jpegexif" /\ walk'.at = n /\ file' = file /\ sniffed' = sniffed
        BY <1>3, <2>1, <2>4, <3>4, <4>1 DEF Go, LeadsTo, AfterStandalone
      <4>3. /\ n \in Nat /\ (n <= s => n \in DOMAIN head)
            /\ \A f \in DOMAIN head : FirstExif(head, f, s) => n <= f
            /\ \A p \in DOMAIN head' : p <= s \/ p < n
        <5>1. CASE w <= s
          <6>1. w \in DOMAIN head /\ h = head[w] /\ DOMAIN head' = DOMAIN head
            BY <1>7, <2>2, <3>2, <5>1
          <6>2. /\ w = s => n \in Nat /\ n > s
                /\ w < s => n \in DOMAIN head
                /\ w < s => \A f \in DOMAIN head : FirstExif(head, f, s) => n <= f
            BY <1>2, <1>3, <3>4, <4>1, <5>1, <6>1, OnTrail DEF FirstExif
          <6>3. w = s => \A f \in DOMAIN head : ~FirstExif(head, f, s)
            BY ONLY <1>4 DEF FirstExif
          <6>4. \A p \in DOMAIN head : p <= s
            BY <1>2, <1>3, <1>4, <5>1 DEF Follows
          <6>5. w = s \/ w < s
            BY ONLY <1>4, <5>1
          <6>. QED  BY ONLY <1>4, <6>1, <6>2, <6>3, <6>4, <6>5
        <5>2. CASE w > s
          <6>1. h.k # "RST" => h.n \in Nat
            BY <1>1, <1>3, <1>6, <2>4, <5>2, ReadsFacts
          <6>2. n \in Nat /\ n > w
            BY ONLY <1>4, <4>1, <6>1 DEF LeadsTo
          <6>3. \A f \in DOMAIN head : ~FirstExif(head, f, s)
            BY ONLY <1>4, <5>2 DEF FirstExif
          <6>4. \A p \in DOMAIN head : p <= s \/ p < w
            BY <1>2, <1>3 DEF Follows
          <6>. QED  BY ONLY <1>4, <3>2, <5>2, <6>2, <6>3, <6>4
        <5>. QED  BY <1>4, <5>1, <5>2
      <4>4. w \in DOMAIN head \/ w >= s
        BY <1>4, <1>7
      <4>5. Trail(head', s, file.size)
        BY ONLY <1>1, <1>4, <3>2, <4>4, TrailStays
      <4>6. /\ \A f : FirstExif(head', f, s) <=> FirstExif(head, f, s)
            /\ Kept(head', s, meta)
        BY ONLY <1>4, <3>2, <4>4, FirstStays
      <4>7. s \in DOMAIN head' /\ head'[s] = head[s]
        BY <3>2
      <4>8. \A f \in DOMAIN head' : FirstExif(head', f, s) => n <= f
        BY ONLY <4>3, <4>6 DEF FirstExif
      <4>9. n <= s => n \in DOMAIN head'
        BY <3>2, <4>3
      <4>10. Follows(s)'
        BY ONLY <1>4, <4>2, <4>3, <4>5, <4>6, <4>7, <4>8, <4>9 DEF Follows
      <4>11. SecondWalk'
        BY <4>7, <4>10 DEF SecondWalk
      <4>. QED  BY ONLY <1>1, <4>2, <4>11 DEF SniffInv
    <3>. QED  BY <3>3, <3>4
  <2>. QED  BY <2>3, <2>4
<1>. QED  BY <1>8, <1>9

LEMMA SniffStep ==
  ASSUME SniffInv, [Next]_allVars
  PROVE  SniffInv'
<1>1. CASE Sniffing
  BY <1>1, DetectKeeps, SniffJpegKeeps, JpegExifKeeps, ReadOnce, OnceKeeps DEF Sniffing, SniffNext
<1>2. CASE ~Sniffing
  <2>1. UNCHANGED sniffVars
    BY <1>2, OthersLeaveSniff DEF Next, allVars
  <2>. QED  BY <2>1 DEF sniffVars, SniffInv, FirstWalk, SecondWalk, Follows, TagsAgree
<1>. QED  BY <1>1, <1>2

-----------------------------------------------------------------------------
(* The theorems *)

\* replace_file: unless it had to write through, what stands at the output path
\* is the old file, the whole new one or a rival's, at every moment, a kill in
\* the middle included.
THEOREM OutputIsWhole == Spec => []OutputWhole
<1>1. FrontInv => OutputWhole
  BY DEF FrontInv, OutputKept, OutputWhole
<1>. QED  BY <1>1, FrontAlways, PTL

\* A command that ends on its own has removed its temporary file or names it.
THEOREM NoTemporaryStrays == Spec => []NoStrayTemporary
<1>1. FrontInv => NoStrayTemporary
  BY DEF FrontInv
<1>. QED  BY <1>1, FrontAlways, PTL

\* Exit code 0 if and only if the output left the process, by the flush of
\* standard output or by the rename; a failure that did not write through has
\* not touched the destination.
THEOREM ExitCodeTells == Spec => []ExitTells
<1>1. FrontInv => ExitTells
  BY DEF FrontInv
<1>. QED  BY <1>1, FrontAlways, PTL

\* What inspect reports is what convert applies, for any file whatever its
\* headers say, with one exception: the Exif segment after the SOF of a JPEG,
\* which jpeg_exif_payload reaches and sniff_jpeg does not.
THEOREM TagsMatch == Spec => []TagsAgree
<1>1. SniffInv => TagsAgree
  BY DEF SniffInv, TagsAgree
<1>2. SniffInv /\ [Next]_allVars => SniffInv'
  BY SniffStep
<1>. QED  BY SniffStarts, <1>1, <1>2, PTL DEF Spec

-----------------------------------------------------------------------------
(*                         Part 2: a transform                             *)

\* Products of naturals, which the arithmetic below takes as given numbers.
LEMMA Products ==
  ASSUME NEW a \in Nat, NEW b \in Nat
  PROVE  a * b \in Nat /\ a * b = b * a /\ (a > 0 /\ b > 0 => a * b > 0)
OBVIOUS

LEMMA ProductOrder ==
  ASSUME NEW a \in Nat, NEW b \in Nat, NEW c \in Nat, NEW d \in Nat, a <= c, b <= d
  PROVE  a * b <= c * d
<1>1. a * b <= c * b
  OBVIOUS
<1>2. c * b <= c * d
  OBVIOUS
<1>. QED  BY <1>1, <1>2

LEMMA ProductCancel ==
  ASSUME NEW a \in Nat, NEW b \in Nat, NEW c \in Nat \ {0}, a * c <= b * c
  PROVE  a <= b
OBVIOUS

\* n \div d is the whole number of times d goes into n.
LEMMA Division ==
  ASSUME NEW n \in Nat, NEW d \in Nat \ {0}
  PROVE  n \div d \in Nat /\ d * (n \div d) <= n /\ n < d * (n \div d) + d
OBVIOUS

LEMMA Quotient ==
  ASSUME NEW n \in Nat, NEW d \in Nat \ {0}, NEW q \in Nat, d * q <= n, n < d * q + d
  PROVE  n \div d = q
OBVIOUS

LEMMA QuotientBound ==
  ASSUME NEW n \in Nat, NEW d \in Nat \ {0}, NEW q \in Nat, n < d * q + d
  PROVE  n \div d <= q
OBVIOUS

\* A size that is scaled never vanishes, ...
LEMMA ScaledPositive ==
  ASSUME NEW v \in Nat, NEW num \in Nat, NEW den \in Nat \ {0}
  PROVE  ScaledBy(v, num, den) \in Nat \ {0}
<1>. DEFINE n == 2 * v * num + den
            d == 2 * den
<1>1. n \in Nat /\ d \in Nat \ {0}
  <2>1. 2 * v \in Nat
    OBVIOUS
  <2>2. (2 * v) * num \in Nat
    BY <2>1, Products
  <2>. QED  BY <2>2
<1>2. ScaledBy(v, num, den) = Greater(1, n \div d)
  BY DEF ScaledBy
<1>. HIDE DEF n, d
<1>3. n \div d \in Nat
  BY <1>1, Division
<1>. QED  BY <1>2, <1>3 DEF Greater

\* ... is exactly the target when it is scaled by target / size, ...
LEMMA ScaledExact ==
  ASSUME NEW s \in Nat \ {0}, NEW t \in Nat \ {0}
  PROVE  ScaledBy(s, t, s) = t
<1>. DEFINE p == s * t
            n == 2 * s * t + s
            d == 2 * s
<1>1. p \in Nat /\ d \in Nat \ {0} /\ n = 2 * p + s /\ d * t = 2 * p
  BY Products
<1>2. ScaledBy(s, t, s) = Greater(1, n \div d)
  BY DEF ScaledBy
<1>3. n \in Nat /\ d * t <= n /\ n < d * t + d
  <2>. HIDE DEF p, n
  <2>. QED  BY <1>1
<1>. HIDE DEF p, n, d
<1>4. n \div d = t
  BY <1>1, <1>3, Quotient
<1>. QED  BY <1>2, <1>4 DEF Greater

\* ... and stays within a bound that the exact product stays within.
LEMMA ScaledWithin ==
  ASSUME NEW v \in Nat, NEW num \in Nat, NEW den \in Nat \ {0}, NEW t \in Nat \ {0},
         v * num <= t * den
  PROVE  ScaledBy(v, num, den) <= t
<1>. DEFINE p == v * num
            q == t * den
            n == 2 * v * num + den
            d == 2 * den
<1>1. p \in Nat /\ q \in Nat /\ p <= q /\ d \in Nat \ {0} /\ n = 2 * p + den /\ d * t = 2 * q
  BY Products
<1>2. ScaledBy(v, num, den) = Greater(1, n \div d)
  BY DEF ScaledBy
<1>3. n \in Nat /\ n < d * t + d
  <2>1. d = 2 * den
    OBVIOUS
  <2>. HIDE DEF p, q, n, d
  <2>. QED  BY <1>1, <2>1
<1>. HIDE DEF p, q, n, d
<1>4. n \div d <= t /\ n \div d \in Nat
  BY <1>1, <1>3, QuotientBound, Division
<1>. QED  BY <1>2, <1>4 DEF Greater

\* fit_scale and resize_content_size for contain: the content fits its box.
LEMMA ContainFits ==
  ASSUME NEW source \in Sizes, NEW target \in Sizes, NEW keepSmall
  PROVE  LET inner == FitContent(source, target, "contain", keepSmall)
         IN inner[1] <= target[1] /\ inner[2] <= target[2]
<1>. DEFINE s1 == source[1]
            s2 == source[2]
            t1 == target[1]
            t2 == target[2]
            Fits2(k) == ScaledBy(s1, k[1], k[2]) <= t1 /\ ScaledBy(s2, k[1], k[2]) <= t2
            x == <<t1, s1>>
            y == <<t2, s2>>
            k0 == IF t1 * s2 <= t2 * s1 THEN x ELSE y
            k1 == IF keepSmall /\ k0[1] > k0[2] THEN <<1, 1>> ELSE k0
<1>1. s1 \in Nat \ {0} /\ s2 \in Nat \ {0} /\ t1 \in Nat \ {0} /\ t2 \in Nat \ {0}
  BY DEF Sizes
<1>2. FitContent(source, target, "contain", keepSmall) =
        <<ScaledBy(s1, k1[1], k1[2]), ScaledBy(s2, k1[1], k1[2])>>
  BY DEF FitContent, FitScale
<1>. HIDE DEF s1, s2, t1, t2
<1>3. t1 * s2 \in Nat /\ t2 * s1 \in Nat
  BY <1>1, Products
<1>4. t1 * s2 <= t2 * s1 => Fits2(x)
  <2>. SUFFICES ASSUME t1 * s2 <= t2 * s1 PROVE Fits2(x)
    OBVIOUS
  <2>1. ScaledBy(s1, t1, s1) = t1
    BY <1>1, ScaledExact
  <2>2. s2 * t1 <= t2 * s1
    BY <1>1, Products
  <2>3. ScaledBy(s2, t1, s1) <= t2
    BY <1>1, <2>2, ScaledWithin
  <2>. QED  BY <1>1, <2>1, <2>3
<1>5. t2 * s1 <= t1 * s2 => Fits2(y)
  <2>. SUFFICES ASSUME t2 * s1 <= t1 * s2 PROVE Fits2(y)
    OBVIOUS
  <2>1. ScaledBy(s2, t2, s2) = t2
    BY <1>1, ScaledExact
  <2>2. s1 * t2 <= t1 * s2
    BY <1>1, Products
  <2>3. ScaledBy(s1, t2, s2) <= t1
    BY <1>1, <2>2, ScaledWithin
  <2>. QED  BY <1>1, <2>1, <2>3
<1>6. Fits2(k0)
  <2>1. t1 * s2 <= t2 * s1 \/ t2 * s1 <= t1 * s2
    BY <1>3
  <2>. QED  BY <1>3, <1>4, <1>5, <2>1
<1>7. ASSUME k0[1] > k0[2] PROVE s1 <= t1 /\ s2 <= t2
  <2>1. CASE t1 * s2 <= t2 * s1
    <3>1. t1 > s1
      BY <1>7, <2>1
    <3>2. s1 * s2 <= t1 * s2 /\ s1 * s2 \in Nat
      BY <1>1, <3>1, ProductOrder, Products
    <3>3. s2 * s1 <= t2 * s1
      BY <1>1, <1>3, <2>1, <3>2, Products
    <3>. QED  BY <1>1, <3>1, <3>3, ProductCancel
  <2>2. CASE ~ (t1 * s2 <= t2 * s1)
    <3>1. t2 > s2
      BY <1>7, <2>2
    <3>2. s2 * s1 <= t2 * s1 /\ s1 * s2 \in Nat
      BY <1>1, <3>1, ProductOrder, Products
    <3>3. s1 * s2 <= t1 * s2
      BY <1>1, <1>3, <2>2, <3>2, Products
    <3>. QED  BY <1>1, <3>1, <3>3, ProductCancel
  <2>. QED  BY <2>1, <2>2
<1>8. Fits2(k1)
  <2>1. CASE keepSmall /\ k0[1] > k0[2]
    <3>1. s1 * 1 <= t1 * 1 /\ s2 * 1 <= t2 * 1 /\ k1 = <<1, 1>>
      BY <1>1, <1>7, <2>1
    <3>. QED  BY <1>1, <3>1, ScaledWithin
  <2>2. CASE ~ (keepSmall /\ k0[1] > k0[2])
    BY <1>6, <2>2
  <2>. QED  BY <2>1, <2>2
<1>. HIDE DEF k1
<1>. QED  BY <1>2, <1>8 DEF s1, s2, t1, t2

\* No resize leaves an axis without pixels.
LEMMA FitPositive ==
  ASSUME NEW source \in Sizes, NEW target \in Sizes, NEW fit, NEW keepSmall
  PROVE  FitContent(source, target, fit, keepSmall) \in Sizes
<1>1. /\ source[1] \in Nat \ {0} /\ source[2] \in Nat \ {0}
      /\ target[1] \in Nat \ {0} /\ target[2] \in Nat \ {0} /\ target = <<target[1], target[2]>>
  BY DEF Sizes
<1>2. CASE fit = "fill"
  BY <1>1, <1>2 DEF FitContent, Lesser, Sizes
<1>3. CASE fit # "fill"
  <2>. DEFINE k0 == FitScale(source, target, fit)
              k1 == IF keepSmall /\ k0[1] > k0[2] THEN <<1, 1>> ELSE k0
  <2>1. k0[1] \in Nat /\ k0[2] \in Nat \ {0}
    BY <1>1 DEF FitScale
  <2>2. k1[1] \in Nat /\ k1[2] \in Nat \ {0}
    <3>. HIDE DEF k0
    <3>. QED  BY <2>1
  <2>3. FitContent(source, target, fit, keepSmall) =
          <<ScaledBy(source[1], k1[1], k1[2]), ScaledBy(source[2], k1[1], k1[2])>>
    <3>. HIDE DEF k0
    <3>. QED  BY <1>3 DEF FitContent, k0
  <2>. HIDE DEF k1
  <2>4. /\ ScaledBy(source[1], k1[1], k1[2]) \in Nat \ {0}
        /\ ScaledBy(source[2], k1[1], k1[2]) \in Nat \ {0}
    BY <1>1, <2>2, ScaledPositive
  <2>. QED  BY <2>3, <2>4 DEF Sizes
<1>. QED  BY <1>2, <1>3

\* An axis asked for, or None.
Axes == (Nat \ {0}) \cup {None}

LEMMA ResolvedPositive ==
  ASSUME NEW source \in Sizes, NEW w \in Axes, NEW h \in Axes, NEW fit, NEW keepSmall
  PROVE  ResolvedSize(source, w, h, fit, keepSmall) \in Sizes
<1>. DEFINE w0 == IF keepSmall THEN Lesser(w, source[1]) ELSE w
            h0 == IF keepSmall THEN Lesser(h, source[2]) ELSE h
            box == <<w, h>>
            inner == FitContent(source, box, fit, keepSmall)
<1>1. /\ source[1] \in Nat \ {0} /\ source[2] \in Nat \ {0}
      /\ source = <<source[1], source[2]>>
  BY DEF Sizes
<1>2. CASE w = None /\ h = None
  BY <1>2 DEF ResolvedSize
<1>3. CASE w # None /\ h = None
  <2>1. w0 \in Nat \ {0}
    BY <1>1, <1>3 DEF Lesser, Axes
  <2>2. ResolvedSize(source, w, h, fit, keepSmall) = <<w0, ScaledBy(source[2], w0, source[1])>>
    BY <1>3 DEF ResolvedSize
  <2>. HIDE DEF w0
  <2>3. ScaledBy(source[2], w0, source[1]) \in Nat \ {0}
    BY <1>1, <2>1, ScaledPositive
  <2>. QED  BY <2>1, <2>2, <2>3 DEF Sizes
<1>4. CASE w = None /\ h # None
  <2>1. h0 \in Nat \ {0}
    BY <1>1, <1>4 DEF Lesser, Axes
  <2>2. ResolvedSize(source, w, h, fit, keepSmall) = <<ScaledBy(source[1], h0, source[2]), h0>>
    BY <1>4 DEF ResolvedSize
  <2>. HIDE DEF h0
  <2>3. ScaledBy(source[1], h0, source[2]) \in Nat \ {0}
    BY <1>1, <2>1, ScaledPositive
  <2>. QED  BY <2>1, <2>2, <2>3 DEF Sizes
<1>5. CASE w # None /\ h # None
  <2>1. box \in Sizes
    BY <1>5 DEF Sizes, Axes
  <2>2. inner \in Sizes
    BY <2>1, FitPositive
  <2>3. ResolvedSize(source, w, h, fit, keepSmall) =
          CASE fit = "contain" -> box
            [] fit = "cover"   -> <<Lesser(box[1], inner[1]), Lesser(box[2], inner[2])>>
            [] OTHER           -> inner
    BY <1>5 DEF ResolvedSize
  <2>. HIDE DEF box, inner
  <2>4. <<Lesser(box[1], inner[1]), Lesser(box[2], inner[2])>> \in Sizes
    BY <2>1, <2>2 DEF Sizes, Lesser
  <2>. QED  BY <2>1, <2>2, <2>3, <2>4
<1>. QED  BY <1>2, <1>3, <1>4, <1>5

LEMMA ContentPositive ==
  ASSUME NEW source \in Sizes, NEW w \in Axes, NEW h \in Axes, NEW fit, NEW keepSmall
  PROVE  ContentSize(source, w, h, fit, keepSmall) \in Sizes
<1>1. CASE w # None /\ h # None
  <2>1. <<w, h>> \in Sizes
    BY <1>1 DEF Sizes, Axes
  <2>. QED  BY <1>1, <2>1, FitPositive DEF ContentSize
<1>2. CASE ~ (w # None /\ h # None)
  BY <1>2, ResolvedPositive DEF ContentSize
<1>. QED  BY <1>1, <1>2

LEMMA PixelsFacts ==
  ASSUME NEW size \in Sizes
  PROVE  Pixels(size) \in Nat
<1>1. size[1] \in Nat /\ size[2] \in Nat
  BY DEF Sizes
<1>. QED  BY <1>1, Products DEF Pixels

\* Unless a cover is cut afterwards, what is scaled is no larger than what is returned.
LEMMA ContentWithin ==
  ASSUME NEW source \in Sizes, NEW w \in Axes, NEW h \in Axes, NEW fit, NEW keepSmall,
         fit # "cover"
  PROVE  Pixels(ContentSize(source, w, h, fit, keepSmall)) <=
           Pixels(ResolvedSize(source, w, h, fit, keepSmall))
<1>. DEFINE inner == ContentSize(source, w, h, fit, keepSmall)
            size == ResolvedSize(source, w, h, fit, keepSmall)
<1>1. inner \in Sizes /\ size \in Sizes
  BY ContentPositive, ResolvedPositive
<1>2. CASE w # None /\ h # None /\ fit = "contain"
  <2>1. <<w, h>> \in Sizes
    BY <1>2 DEF Sizes, Axes
  <2>2. inner = FitContent(source, <<w, h>>, "contain", keepSmall) /\ size = <<w, h>>
    BY <1>2 DEF ContentSize, ResolvedSize
  <2>. HIDE DEF inner, size
  <2>3. inner[1] <= w /\ inner[2] <= h
    BY <2>1, <2>2, ContainFits
  <2>4. inner[1] \in Nat /\ inner[2] \in Nat /\ w \in Nat /\ h \in Nat
    BY <1>1, <2>1 DEF Sizes
  <2>5. inner[1] * inner[2] <= w * h
    BY <2>3, <2>4, ProductOrder
  <2>. QED  BY <2>2, <2>5 DEF Pixels, inner, size
<1>3. CASE ~ (w # None /\ h # None /\ fit = "contain")
  <2>1. inner = size
    <3>1. CASE w # None /\ h # None
      <4>1. inner = FitContent(source, <<w, h>>, fit, keepSmall)
        BY <3>1 DEF ContentSize
      <4>2. size = FitContent(source, <<w, h>>, fit, keepSmall)
        BY <1>3, <3>1 DEF ResolvedSize
      <4>. QED  BY <4>1, <4>2
    <3>2. CASE ~ (w # None /\ h # None)
      BY <3>2 DEF ContentSize
    <3>. QED  BY <3>1, <3>2
  <2>2. Pixels(size) \in Nat
    BY <1>1, PixelsFacts
  <2>. HIDE DEF inner, size
  <2>. QED  BY <2>1, <2>2 DEF inner, size
<1>. QED  BY <1>2, <1>3

-----------------------------------------------------------------------------
(* Turning, cropping and placing *)

LEMMA LeastOne ==
  ASSUME NEW T \in SUBSET Nat, T # {}
  PROVE  \E n \in T : \A m \in T : n <= m
<1>. DEFINE R == OpToRel(<, Nat)
<1>1. IsWellFoundedOn(R, Nat)
  BY NatLessThanWellFounded
<1>2. R = {ss \in Nat \X Nat : ss[1] < ss[2]}
  BY DEF OpToRel
<1>. HIDE DEF R
<1>3. PICK x \in T : \A y \in T : ~ (<<y, x>> \in R)
  BY <1>1, WFMin
<1>4. \A y \in T : y \in Nat /\ (<<y, x>> \in R <=> y < x)
  BY <1>2
<1>5. \A y \in T : ~ (y < x)
  BY <1>3, <1>4
<1>6. \A y \in T : x <= y
  BY <1>4, <1>5
<1>. QED  BY <1>6

\* There is a least side whose square is twice covered.
LEMMA DiagonalFacts ==
  ASSUME NEW n \in Nat
  PROVE  DiagonalCeil(n) \in Nat
<1>. DEFINE Covers(k) == 2 * k * k >= n * n
            Fits1(k) == Covers(k) /\ (k = 0 \/ 2 * (k - 1) * (k - 1) < n * n)
            T == {k \in 0..n : Covers(k)}
<1>1. n \in T
  <2>1. n * n \in Nat /\ 2 * n * n = 2 * (n * n)
    BY Products
  <2>2. 2 * n * n >= n * n
    BY <2>1
  <2>. QED  BY <2>2
<1>2. PICK k \in T : \A m \in T : k <= m
  <2>1. T \in SUBSET Nat /\ T # {}
    BY <1>1
  <2>. HIDE DEF T
  <2>. QED  BY <2>1, LeastOne
<1>3. k \in 0..n /\ Covers(k)
  OBVIOUS
<1>4. k = 0 \/ 2 * (k - 1) * (k - 1) < n * n
  <2>. SUFFICES ASSUME k # 0 PROVE 2 * (k - 1) * (k - 1) < n * n
    OBVIOUS
  <2>. DEFINE j == k - 1
  <2>1. j \in 0..n /\ j < k
    BY <1>3
  <2>2. j \notin T
    <3>. HIDE DEF T, j
    <3>. QED  BY <1>2, <1>3, <2>1
  <2>3. ~ Covers(j)
    <3>. HIDE DEF Covers
    <3>. QED  BY <2>1, <2>2
  <2>4. 2 * j * j \in Nat /\ n * n \in Nat
    <3>1. j \in Nat /\ 2 * j \in Nat
      BY <2>1
    <3>. HIDE DEF j
    <3>. QED  BY <3>1, Products
  <2>. QED  BY <2>3, <2>4
<1>5. \E m \in 0..n : Fits1(m)
  BY <1>3, <1>4
<1>6. DiagonalCeil(n) = CHOOSE m \in 0..n : Fits1(m)
  BY DEF DiagonalCeil
<1>. HIDE DEF Fits1
<1>7. DiagonalCeil(n) \in 0..n
  BY <1>5, <1>6
<1>. QED  BY <1>7

LEMMA RotatedPositive ==
  ASSUME NEW size \in Sizes, NEW degrees
  PROVE  RotatedBox(size, degrees) \in Sizes
<1>1. size[1] \in Nat \ {0} /\ size[2] \in Nat \ {0} /\ size[1] + size[2] \in Nat
  BY DEF Sizes
<1>. DEFINE side == Greater(1, DiagonalCeil(size[1] + size[2]))
<1>2. side \in Nat \ {0}
  BY <1>1, DiagonalFacts DEF Greater
<1>3. RotatedBox(size, degrees) =
        CASE degrees \in {0, 180}  -> size
          [] degrees \in {90, 270} -> <<size[2], size[1]>>
          [] OTHER                 -> <<side, side>>
  BY DEF RotatedBox
<1>. HIDE DEF side
<1>4. size \in Sizes /\ <<size[2], size[1]>> \in Sizes /\ <<side, side>> \in Sizes
  BY <1>1, <1>2 DEF Sizes
<1>. QED  BY <1>3, <1>4

LEMMA PreRotationPositive ==
  ASSUME NEW target \in Sizes, NEW intrinsic \in Sizes, NEW rotated \in Sizes, NEW degrees
  PROVE  PreRotationSize(target, intrinsic, rotated, degrees) \in Sizes
<1>1. /\ target[1] \in Nat \ {0} /\ target[2] \in Nat \ {0}
      /\ intrinsic[1] \in Nat \ {0} /\ intrinsic[2] \in Nat \ {0}
      /\ rotated[1] \in Nat \ {0} /\ rotated[2] \in Nat \ {0}
  BY DEF Sizes
<1>. DEFINE s == IF target[1] * rotated[2] >= target[2] * rotated[1]
                 THEN <<target[1], rotated[1]>> ELSE <<target[2], rotated[2]>>
            drawn == <<ScaledBy(intrinsic[1], s[1], s[2]), ScaledBy(intrinsic[2], s[1], s[2])>>
<1>2. s[1] \in Nat /\ s[2] \in Nat \ {0}
  BY <1>1
<1>3. drawn \in Sizes
  <2>. HIDE DEF s
  <2>1. /\ ScaledBy(intrinsic[1], s[1], s[2]) \in Nat \ {0}
        /\ ScaledBy(intrinsic[2], s[1], s[2]) \in Nat \ {0}
    BY <1>1, <1>2, ScaledPositive
  <2>. QED  BY <2>1 DEF Sizes
<1>4. PreRotationSize(target, intrinsic, rotated, degrees) =
        CASE degrees \in {0, 180}  -> target
          [] degrees \in {90, 270} -> <<target[2], target[1]>>
          [] OTHER                 -> drawn
  BY DEF PreRotationSize
<1>. HIDE DEF drawn
<1>5. <<target[2], target[1]>> \in Sizes
  BY <1>1 DEF Sizes
<1>. QED  BY <1>3, <1>4, <1>5

\* A rectangle with an area.
Rectangles == Nat \X Nat \X (Nat \ {0}) \X (Nat \ {0})

LEMMA SaturatedPositive ==
  ASSUME NEW v \in Nat \ {0}
  PROVE  Saturated(v) \in Nat \ {0}
BY WidthsAssumption DEF Saturated, Lesser

LEMMA ScaledCropPositive ==
  ASSUME NEW crop \in Rectangles, NEW intrinsic \in Sizes, NEW render \in Sizes
  PROVE  LET scaled == ScaledCrop(crop, intrinsic, render)
         IN scaled.full \in Sizes /\ scaled.crop \in Rectangles
<1>. DEFINE num == render[1] * crop[4] + render[2] * crop[3]
            den == 2 * crop[3] * crop[4]
            Origin(v) == Saturated((2 * v * num + den) \div (2 * den))
            Extent(v) == Saturated(ScaledBy(v, num, den))
            full == <<Extent(intrinsic[1]), Extent(intrinsic[2])>>
            x == Lesser(Origin(crop[1]), Monus(full[1], 1))
            y == Lesser(Origin(crop[2]), Monus(full[2], 1))
            w == Lesser(Extent(crop[3]), full[1] - x)
            h == Lesser(Extent(crop[4]), full[2] - y)
<1>0. ScaledCrop(crop, intrinsic, render) = [full |-> full, crop |-> <<x, y, w, h>>]
  BY DEF ScaledCrop
<1>1. /\ crop[1] \in Nat /\ crop[2] \in Nat /\ crop[3] \in Nat \ {0} /\ crop[4] \in Nat \ {0}
      /\ intrinsic[1] \in Nat \ {0} /\ intrinsic[2] \in Nat \ {0}
      /\ render[1] \in Nat \ {0} /\ render[2] \in Nat \ {0}
  BY DEF Sizes, Rectangles
<1>2. num \in Nat
  BY <1>1, Products
<1>3. den \in Nat \ {0}
  <2>1. 2 * crop[3] \in Nat \ {0}
    BY <1>1
  <2>. QED  BY <1>1, <2>1, Products
<1>. HIDE DEF num, den
<1>4. ASSUME NEW v \in Nat PROVE Extent(v) \in Nat \ {0}
  BY <1>2, <1>3, <1>4, ScaledPositive, SaturatedPositive
<1>5. ASSUME NEW v \in Nat PROVE Origin(v) \in Nat
  <2>. DEFINE n == 2 * v * num + den
  <2>1. n \in Nat /\ 2 * den \in Nat \ {0}
    <3>1. 2 * v \in Nat
      BY <1>5
    <3>. QED  BY <1>2, <1>3, <3>1, Products
  <2>. HIDE DEF n
  <2>2. n \div (2 * den) \in Nat
    BY <2>1, Division
  <2>3. Saturated(n \div (2 * den)) \in Nat
    BY <2>2, WidthsAssumption DEF Saturated, Lesser
  <2>. QED  BY <2>3 DEF n
<1>. HIDE DEF Extent, Origin
<1>6. full[1] \in Nat \ {0} /\ full[2] \in Nat \ {0} /\ full \in Sizes
  BY <1>1, <1>4 DEF Sizes
<1>. HIDE DEF full
<1>7. x \in Nat /\ y \in Nat /\ full[1] - x \in Nat \ {0} /\ full[2] - y \in Nat \ {0}
  <2>1. Origin(crop[1]) \in Nat /\ Origin(crop[2]) \in Nat
    BY <1>1, <1>5
  <2>. QED  BY <1>6, <2>1 DEF Lesser, Monus
<1>. HIDE DEF x, y
<1>8. w \in Nat \ {0} /\ h \in Nat \ {0}
  <2>1. Extent(crop[3]) \in Nat \ {0} /\ Extent(crop[4]) \in Nat \ {0}
    BY <1>1, <1>4
  <2>. QED  BY <1>7, <2>1 DEF Lesser
<1>. HIDE DEF w, h
<1>. QED  BY <1>0, <1>6, <1>7, <1>8 DEF Rectangles

\* position_offset: content no larger than its container lies inside it.
LEMMA PositionInside ==
  ASSUME NEW box \in Sizes, NEW inner \in Sizes, NEW position,
         inner[1] <= box[1], inner[2] <= box[2]
  PROVE  LET place == PositionOffset(box, inner, position)
         IN place[1] + inner[1] <= box[1] /\ place[2] + inner[2] <= box[2]
<1>. DEFINE h == Monus(box[1], inner[1])
            v == Monus(box[2], inner[2])
            place == PositionOffset(box, inner, position)
<1>1. /\ box[1] \in Nat /\ box[2] \in Nat /\ inner[1] \in Nat /\ inner[2] \in Nat
  BY DEF Sizes
<1>2. h \in Nat /\ v \in Nat /\ h + inner[1] = box[1] /\ v + inner[2] = box[2]
  BY <1>1 DEF Monus
<1>3. place[1] \in {h \div 2, 0, h} /\ place[2] \in {v \div 2, 0, v}
  BY DEF PositionOffset
<1>. HIDE DEF h, v, place
<1>4. h \div 2 \in Nat /\ h \div 2 <= h /\ v \div 2 \in Nat /\ v \div 2 <= v
  BY <1>2
<1>5. place[1] \in Nat /\ place[1] <= h /\ place[2] \in Nat /\ place[2] <= v
  BY <1>2, <1>3, <1>4
<1>6. place[1] + inner[1] <= box[1] /\ place[2] + inner[2] <= box[2]
  BY <1>1, <1>2, <1>5
<1>. QED  BY <1>6 DEF place

\* place_watermark: a watermark that fits with its margins lies inside the image.
LEMMA WatermarkInside ==
  ASSUME NEW main \in Sizes, NEW wm \in Nat \X Nat, NEW position, NEW margin \in Nat,
         WatermarkFits(wm, main, position, margin)
  PROVE  LET place == WatermarkOffset(main, wm, position, margin)
         IN place[1] + wm[1] <= main[1] /\ place[2] + wm[2] <= main[2]
<1>. DEFINE m == WatermarkMargins(position, margin)
            h == Monus(main[1], wm[1])
            v == Monus(main[2], wm[2])
            place == WatermarkOffset(main, wm, position, margin)
            centred1 == position \in {"center", "top", "bottom"}
            centred2 == position \in {"center", "left", "right"}
<1>1. main[1] \in Nat /\ main[2] \in Nat /\ wm[1] \in Nat /\ wm[2] \in Nat
  BY DEF Sizes
<1>2. m[1] \in {0, margin} /\ m[2] \in {0, margin} /\ (~ centred1 => m[1] = margin)
      /\ (~ centred2 => m[2] = margin)
  BY DEF WatermarkMargins
<1>3. wm[1] + m[1] <= main[1] /\ wm[2] + m[2] <= main[2]
  BY DEF WatermarkFits
<1>4. /\ place[1] = h \div 2 \/ (~ centred1 /\ place[1] \in {margin, Monus(h, margin)})
      /\ place[2] = v \div 2 \/ (~ centred2 /\ place[2] \in {margin, Monus(v, margin)})
  BY DEF WatermarkOffset
<1>. HIDE DEF m, place, centred1, centred2
<1>5. h \in Nat /\ v \in Nat /\ h + wm[1] = main[1] /\ v + wm[2] = main[2]
  BY <1>1, <1>2, <1>3 DEF Monus
<1>. HIDE DEF h, v
<1>6. /\ ~ centred1 => margin <= h
      /\ ~ centred2 => margin <= v
  BY <1>1, <1>2, <1>3, <1>5
<1>7. /\ h \div 2 \in Nat /\ h \div 2 <= h /\ v \div 2 \in Nat /\ v \div 2 <= v
      /\ Monus(h, margin) \in Nat /\ Monus(h, margin) <= h
      /\ Monus(v, margin) \in Nat /\ Monus(v, margin) <= v
  BY <1>5 DEF Monus
<1>8. place[1] \in Nat /\ place[1] <= h /\ place[2] \in Nat /\ place[2] <= v
  BY <1>4, <1>5, <1>6, <1>7
<1>9. place[1] + wm[1] <= main[1] /\ place[2] + wm[2] <= main[2]
  BY <1>1, <1>5, <1>8
<1>. QED  BY <1>9 DEF place

-----------------------------------------------------------------------------
(* The rules and the order of the stages *)

\* A list of rules that reports nothing holds no broken rule.
LEMMA NothingBroken ==
  ASSUME NEW n \in Nat, NEW rules, DOMAIN rules = 1..n, FirstBroken(rules) = "ok",
         \A i \in 1..n : rules[i][2] # "ok"
  PROVE  \A i \in 1..n : ~ rules[i][1]
<1>. DEFINE broken == {i \in DOMAIN rules : rules[i][1]}
<1>. SUFFICES ASSUME broken # {} PROVE FALSE
  OBVIOUS
<1>1. \E i \in broken : \A j \in broken : i <= j
  <2>1. broken \in SUBSET Nat
    OBVIOUS
  <2>. HIDE DEF broken
  <2>. QED  BY <2>1, LeastOne
<1>2. FirstBroken(rules) = rules[CHOOSE i \in broken : \A j \in broken : i <= j][2]
  BY DEF FirstBroken
<1>. DEFINE k == CHOOSE i \in broken : \A j \in broken : i <= j
<1>3. k \in broken
  <2>. HIDE DEF broken
  <2>. QED  BY <1>1
<1>4. k \in 1..n
  <2>. HIDE DEF k
  <2>. QED  BY <1>3
<1>. HIDE DEF k, broken
<1>. QED  BY <1>2, <1>4 DEF k

\* apply_pixel_stages: what may come after a stage.  A watermark that is asked
\* for is never passed over, nor is the resize.
LEMMA StageFacts ==
  /\ After("rotate") \in {"crop", "resize"}
  /\ After("rotate") = "crop" => opt.crop # <<>>
  /\ After("crop") = "resize"
  /\ \A s \in {"resize", "blur", "sharpen", "grayscale"} :
       /\ After(s) \in {"blur", "sharpen", "grayscale", "watermark", "encode"}
       /\ After(s) = "encode" => opt.watermark = <<>>
<1>. DEFINE rank(s) == CHOOSE i \in DOMAIN StageOrder : StageOrder[i] = s
            later(s) == {i \in DOMAIN StageOrder : i > rank(s) /\ Asked(StageOrder[i])}
            next(s) == CHOOSE i \in later(s) : \A j \in later(s) : i <= j
<1>1. /\ DOMAIN StageOrder = 1..8
      /\ StageOrder[1] = "rotate" /\ StageOrder[2] = "crop" /\ StageOrder[3] = "resize"
      /\ StageOrder[4] = "blur" /\ StageOrder[5] = "sharpen" /\ StageOrder[6] = "grayscale"
      /\ StageOrder[7] = "watermark" /\ StageOrder[8] = "encode"
  BY DEF StageOrder
<1>2. /\ Asked("resize") /\ Asked("encode") /\ (Asked("crop") <=> opt.crop # <<>>)
      /\ (Asked("watermark") <=> opt.watermark # <<>>)
  BY DEF Asked
<1>3. \A i \in 1..8 : rank(StageOrder[i]) = i
  <2>. TAKE i \in 1..8
  <2>1. \A j \in 1..8 : StageOrder[j] = StageOrder[i] => j = i
    BY <1>1
  <2>2. \E j \in DOMAIN StageOrder : StageOrder[j] = StageOrder[i]
    BY <1>1
  <2>3. rank(StageOrder[i]) \in 1..8 /\ StageOrder[rank(StageOrder[i])] = StageOrder[i]
    BY <1>1, <2>2
  <2>. QED  BY <2>1, <2>3
<1>. HIDE DEF rank
<1>4. ASSUME NEW i \in 1..7
      PROVE  /\ After(StageOrder[i]) = StageOrder[next(StageOrder[i])]
             /\ next(StageOrder[i]) \in later(StageOrder[i])
             /\ \A j \in later(StageOrder[i]) : next(StageOrder[i]) <= j
  <2>. DEFINE L == later(StageOrder[i])
  <2>1. 8 \in L /\ L \in SUBSET Nat
    BY <1>1, <1>2, <1>3
  <2>2. After(StageOrder[i]) = StageOrder[next(StageOrder[i])]
    BY DEF After, rank
  <2>. HIDE DEF L
  <2>3. \E k \in L : \A j \in L : k <= j
    BY <2>1, LeastOne
  <2>4. next(StageOrder[i]) = CHOOSE k \in L : \A j \in L : k <= j
    BY DEF L
  <2>. HIDE DEF next
  <2>5. next(StageOrder[i]) \in L /\ \A j \in L : next(StageOrder[i]) <= j
    BY <2>3, <2>4
  <2>. QED  BY <2>2, <2>5 DEF L
<1>. HIDE DEF next
<1>5. \A i \in 1..7 : \A k : k \in later(StageOrder[i]) <=> k \in 1..8 /\ k > i /\ Asked(StageOrder[k])
  BY <1>1, <1>3
<1>. HIDE DEF later
<1>6. ASSUME NEW i \in 1..7
      PROVE  \E k \in 1..8 : /\ After(StageOrder[i]) = StageOrder[k] /\ k > i /\ Asked(StageOrder[k])
                             /\ \A j \in 1..8 : j > i /\ Asked(StageOrder[j]) => k <= j
  BY <1>4, <1>5
<1>7. After("rotate") \in {"crop", "resize"} /\ (After("rotate") = "crop" => opt.crop # <<>>)
  <2>1. PICK k \in 1..8 : /\ After("rotate") = StageOrder[k] /\ k > 1 /\ Asked(StageOrder[k])
                          /\ \A j \in 1..8 : j > 1 /\ Asked(StageOrder[j]) => k <= j
    BY <1>1, <1>6
  <2>2. k = 2 \/ k = 3
    BY <1>1, <1>2, <2>1
  <2>. QED  BY <1>1, <1>2, <2>1, <2>2
<1>8. After("crop") = "resize"
  <2>1. PICK k \in 1..8 : /\ After("crop") = StageOrder[k] /\ k > 2 /\ Asked(StageOrder[k])
                          /\ \A j \in 1..8 : j > 2 /\ Asked(StageOrder[j]) => k <= j
    BY <1>1, <1>6
  <2>2. k = 3
    BY <1>1, <1>2, <2>1
  <2>. QED  BY <1>1, <2>1, <2>2
<1>9. ASSUME NEW s \in {"resize", "blur", "sharpen", "grayscale"}
      PROVE  /\ After(s) \in {"blur", "sharpen", "grayscale", "watermark", "encode"}
             /\ After(s) = "encode" => opt.watermark = <<>>
  <2>1. PICK i \in 3..6 : s = StageOrder[i]
    BY <1>1
  <2>2. PICK k \in 1..8 : /\ After(s) = StageOrder[k] /\ k > i /\ Asked(StageOrder[k])
                          /\ \A j \in 1..8 : j > i /\ Asked(StageOrder[j]) => k <= j
    BY <1>6, <2>1
  <2>3. k \in 4..8
    BY <2>1, <2>2
  <2>4. k = 8 => ~ Asked("watermark")
    BY <1>1, <2>1, <2>2
  <2>. QED  BY <1>1, <1>2, <2>2, <2>3, <2>4
<1>. QED  BY <1>7, <1>8, <1>9

-----------------------------------------------------------------------------
(* The inductive invariant *)

\* Options that passed normalize: no axis is empty, a fit has both of them, a
\* crop has an area.
SoundOptions(o) ==
  /\ o.width \in Axes /\ o.height \in Axes
  /\ o.fit # "none" => o.width # None /\ o.height # None
  /\ o.rotate \in 0..359 /\ o.autoOrient \in BOOLEAN
  /\ o.crop = <<>> \/ o.crop \in Rectangles
  /\ o.watermark # <<>> =>
       o.watermark[1].image.size \in Nat \X Nat /\ o.watermark[1].margin \in Nat

RasterStages == {"lossless", "metadata", "decode"}
DrawingStages == {"sanitize", "handback", "draw"}
ImageStages == {"rotate", "crop", "resize", "blur", "sharpen", "grayscale", "watermark", "encode"}

\* The quarter turns asked for; a diagonal turns the picture, not its axes.
AskedTurn == IF QuarterTurns(opt.rotate) = None THEN 0 ELSE QuarterTurns(opt.rotate)

\* A raster image has been turned upright and as asked from the rotation on.
TurnedSoFar ==
  IF stage = "rotate" THEN image.turn = <<0, 0>>
  ELSE opt.autoOrient =>
         image.turn = Then(OrientationTurn(TagOf(req.input)), <<0, AskedTurn>>)

\* The image the stages work on is not empty; what is left to cut of a drawing
\* has an area.
Pictured ==
  /\ image \in [size : Sizes, alpha : {image.alpha}, turn : {image.turn}, diagonal : {image.diagonal}]
  /\ IF req.input.type = "svg"
     THEN stage \in {"rotate", "crop"} /\ opt.crop # <<>> => req.input.region \in Rectangles
     ELSE req \in Requests /\ TurnedSoFar

TransformInv ==
  /\ stage \in {"accept", "done"} \cup RasterStages \cup DrawingStages \cup ImageStages
  /\ grown \in Nat /\ grown <= MaxOutput
  /\ ShownAsMeant
  /\ stage \in {"accept"} \cup RasterStages \cup DrawingStages => req \in Requests
  /\ stage \in RasterStages => req.input.type # "svg"
  /\ stage = "lossless" => opt.format = "jpeg"
  /\ stage \in DrawingStages =>
       req.input.type = "svg" /\ opt = Normalized(req.options, "svg", req.watermark)
  /\ stage \notin {"accept", "done"} => SoundOptions(opt)
  /\ stage \in ImageStages => Pictured
  /\ stage = "crop" => opt.crop # <<>>
  /\ stage = "encode" /\ opt.watermark # <<>> =>
       WatermarkFits(opt.watermark[1].image.size, image.size, opt.watermark[1].position,
                     opt.watermark[1].margin)

-----------------------------------------------------------------------------
(* Acceptance *)

\* What normalize lets through is sound, for any input and watermark.
LEMMA AcceptedSound ==
  ASSUME NEW r \in Requests, NEW type,
         NormalizeRefusal(r.options, type, r.watermark) = "ok"
  PROVE  SoundOptions(Normalized(r.options, type, r.watermark))
<1>. DEFINE o == r.options
            rules == <<
              <<o.width = 0, "width">>,
              <<o.height = 0, "height">>,
              <<o.quality # None /\ o.quality \notin 1..100, "quality">>,
              <<TargetOutOfRange(o.target), "targetQuality">>,
              <<o.blur # None /\ o.blur \notin 1..1000, "blur">>,
              <<o.sharpen # None /\ o.sharpen \notin 1..1000, "sharpen">>,
              <<o.crop # <<>> /\ (o.crop[3] = 0 \/ o.crop[4] = 0), "crop">>,
              <<o.fit # "none" /\ ~Bounded(o), "fit needs both">>,
              <<o.position # "none" /\ ~Bounded(o), "position needs both">>,
              <<o.withoutEnlargement /\ o.width = None /\ o.height = None, "withoutEnlargement">>,
              <<o.preserveExif /\ o.strip, "preserveExif needs metadata">> >>
<1>1. FirstBroken(rules) = "ok"
  BY DEF NormalizeRefusal, ValidateWithoutInput
<1>2. /\ DOMAIN rules = 1..11
      /\ \A i \in 1..11 : rules[i][2] # "ok"
      /\ rules[1][1] = (o.width = 0) /\ rules[2][1] = (o.height = 0)
      /\ rules[7][1] = (o.crop # <<>> /\ (o.crop[3] = 0 \/ o.crop[4] = 0))
  OBVIOUS
<1>. HIDE DEF rules
<1>3. \A i \in 1..11 : ~ rules[i][1]
  BY <1>1, <1>2, NothingBroken
<1>4. o.width # 0 /\ o.height # 0 /\ ~ (o.crop # <<>> /\ (o.crop[3] = 0 \/ o.crop[4] = 0))
  <2>1. ~ rules[1][1] /\ ~ rules[2][1] /\ ~ rules[7][1]
    BY <1>3
  <2>. QED  BY <1>2, <2>1, Zenon
<1>5. /\ o.width \in Nat \cup {None} /\ o.height \in Nat \cup {None}
      /\ o.rotate \in 0..359 /\ o.autoOrient \in BOOLEAN
      /\ o.crop = <<>> \/ o.crop \in Nat \X Nat \X Nat \X Nat
      /\ r.watermark # <<>> => r.watermark[1].image.size \in Nat \X Nat /\ r.watermark[1].margin \in Nat
  BY RequestsAssumption
<1>. DEFINE n == Normalized(o, type, r.watermark)
<1>6. /\ n.width = o.width /\ n.height = o.height /\ n.rotate = o.rotate
      /\ n.autoOrient = o.autoOrient /\ n.crop = o.crop /\ n.watermark = r.watermark
      /\ n.fit # "none" => Bounded(o)
  BY DEF Normalized
<1>. HIDE DEF n, o
<1>7. n.width \in Axes /\ n.height \in Axes
  BY <1>4, <1>5, <1>6 DEF Axes
<1>8. n.crop = <<>> \/ n.crop \in Rectangles
  BY <1>4, <1>5, <1>6 DEF Rectangles
<1>9. n.fit # "none" => n.width # None /\ n.height # None
  BY <1>6 DEF Bounded
<1>10. SoundOptions(n)
  BY <1>5, <1>6, <1>7, <1>8, <1>9 DEF SoundOptions
<1>. QED  BY <1>10 DEF n, o

-----------------------------------------------------------------------------
(* Turns *)

Turns == (0..1) \X (0..3)

\* The code's table of turns is the standard's table of sides.
LEMMA ShownIs ==
  ASSUME NEW tag \in 0..8
  PROVE  Shown(tag) = OrientationTurn(tag) /\ OrientationTurn(tag) \in Turns
<1>1. OrientationTurn(tag) \in Turns
  BY DEF OrientationTurn, Turns
<1>2. CASE tag = 0
  <2>1. Shown(tag) = <<0, 0>>
    BY <1>2, Zenon DEF Shown
  <2>2. OrientationTurn(tag) = <<0, 0>>
    BY <1>2 DEF OrientationTurn
  <2>. QED  BY <1>1, <2>1, <2>2
<1>3. CASE tag # 0
  <2>. DEFINE top == <<"top", "right", "bottom", "left">>
              left == <<"left", "top", "right", "bottom">>
              right == <<"right", "bottom", "left", "top">>
  <2>1. ASSUME NEW a \in 0..1, NEW b \in 0..3
        PROVE  SidesOf(<<a, b>>) = << top[b + 1], IF a = 0 THEN left[b + 1] ELSE right[b + 1] >>
    BY DEF SidesOf
  <2>2. /\ SidesOf(<<0, 0>>) = <<"top", "left">>     /\ SidesOf(<<1, 0>>) = <<"top", "right">>
        /\ SidesOf(<<0, 1>>) = <<"right", "top">>    /\ SidesOf(<<1, 1>>) = <<"right", "bottom">>
        /\ SidesOf(<<0, 2>>) = <<"bottom", "right">> /\ SidesOf(<<1, 2>>) = <<"bottom", "left">>
        /\ SidesOf(<<0, 3>>) = <<"left", "bottom">>  /\ SidesOf(<<1, 3>>) = <<"left", "top">>
    BY <2>1
  <2>3. \A g \in Turns : g \in {<<0, 0>>, <<0, 1>>, <<0, 2>>, <<0, 3>>, <<1, 0>>, <<1, 1>>, <<1, 2>>, <<1, 3>>}
    BY DEF Turns
  <2>4. SidesOf(OrientationTurn(tag)) = ExifSides[tag]
    BY <1>3, <2>2 DEF OrientationTurn, ExifSides
  <2>5. \A g \in Turns : SidesOf(g) = SidesOf(OrientationTurn(tag)) => g = OrientationTurn(tag)
    <3>1. \A g, h \in Turns : SidesOf(g) = SidesOf(h) => g = h
      <4>. SUFFICES ASSUME NEW g \in Turns, NEW h \in Turns, SidesOf(g) = SidesOf(h) PROVE g = h
        OBVIOUS
      <4>. QED  BY <2>2, <2>3
    <3>. HIDE DEF Turns
    <3>. QED  BY <1>1, <3>1
  <2>6. Shown(tag) = CHOOSE g \in Turns : SidesOf(g) = ExifSides[tag]
    BY <1>3 DEF Shown, Turns
  <2>. QED  BY <1>1, <2>4, <2>5, <2>6
<1>. QED  BY <1>1, <1>2, <1>3

\* Turning by nothing, before or after, changes nothing.
LEMMA NoTurn ==
  ASSUME NEW g \in Turns
  PROVE  Then(<<0, 0>>, g) = g /\ Then(g, <<0, 0>>) = g
<1>1. PICK a \in 0..1, b \in 0..3 : g = <<a, b>>
  BY DEF Turns
<1>2. a \in {0, 1} /\ b \in {0, 1, 2, 3}
  OBVIOUS
<1>. QED  BY <1>1, <1>2 DEF Then

LEMMA TurnsCompose ==
  ASSUME NEW g \in Turns, NEW q \in 0..3
  PROVE  Then(g, <<0, q>>) \in Turns
<1>1. PICK a \in 0..1, b \in 0..3 : g = <<a, b>>
  BY DEF Turns
<1>2. Then(g, <<0, q>>) = <<(a + 0) % 2, (b + q) % 4>>
  BY <1>1 DEF Then
<1>3. (a + 0) % 2 \in 0..1 /\ (b + q) % 4 \in 0..3
  OBVIOUS
<1>. QED  BY <1>2, <1>3 DEF Turns

LEMMA QuarterFacts ==
  ASSUME NEW d \in 0..359
  PROVE  /\ QuarterTurns(d) \in (0..3) \cup {None}
         /\ d = 0 => QuarterTurns(d) = 0
<1>1. d % 90 = 0 => d \div 90 \in 0..3
  OBVIOUS
<1>. QED  BY <1>1 DEF QuarterTurns

\* The tag a file is read with.
LEMMA TagFacts ==
  ASSUME NEW r \in Requests
  PROVE  /\ r.input.tag \in 0..8 /\ TagOf(r.input) \in 0..8
         /\ TagOf(r.input) \in {0, r.input.tag}
         /\ r.input.type \in {"jpeg", "png", "webp"} =>
              TagOf(r.input) = r.input.tag /\ (r.input.tag # 0 => "exif" \in r.input.kinds)
<1>1. r.input.tag \in 0..8
  BY RequestsAssumption
<1>2. r.input.type \in {"jpeg", "png", "webp"} /\ r.input.tag # 0 => "exif" \in r.input.kinds
  BY RequestsAssumption
<1>. QED  BY <1>1, <1>2 DEF TagOf

-----------------------------------------------------------------------------
(* How a step may end *)

LEMMA FailFacts ==
  ASSUME NEW e, Fail(e)
  PROVE  stage' = "done" /\ result'.status # "ok" /\ grown' = grown /\ req' = req
BY DEF Fail, Failed

LEMMA WorkFacts ==
  ASSUME NEW s, Work(s)
  PROVE  stage' = s \/ (stage' = "done" /\ result'.status # "ok")
BY DEF Work, Failed

\* A transform that ends without an answer, or with a drawing, ...
LEMMA TransformEnds ==
  ASSUME stage' = "done", grown' \in Nat, grown' <= MaxOutput,
         result'.status # "ok" \/ req'.input.type = "svg"
  PROVE  TransformInv'
<1>1. ShownAsMeant'
  BY DEF ShownAsMeant, Succeeded
<1>. QED  BY <1>1 DEF TransformInv, RasterStages, DrawingStages, ImageStages

LEMMA TransformFails ==
  ASSUME TransformInv, NEW e, Fail(e)
  PROVE  TransformInv'
<1>1. stage' = "done" /\ result'.status # "ok" /\ grown' = grown
  BY FailFacts
<1>2. grown \in Nat /\ grown <= MaxOutput
  BY DEF TransformInv
<1>. QED  BY <1>1, <1>2, TransformEnds

\* ... with a file and warnings about it, ...
Meant(output, warned) ==
  IF opt.autoOrient
  THEN \/ Then(output.turn, Shown(output.tag)) = Then(Shown(TagOf(req.input)), <<0, AskedTurn>>)
       \/ output.source = "encode" /\ output.tag = TagOf(req.input) /\ req.input.form # "short"
  ELSE TagOf(req.input) \in 2..8 =>
         \/ output.tag = TagOf(req.input)
         \/ \E w \in warned : w.warning = "OrientationDropped"

LEMMA Answers ==
  ASSUME TransformInv, UNCHANGED <<req, opt, grown>>, stage' = "done",
         NEW output, NEW size, NEW alpha, NEW warned, result' = Answer(output, size, alpha, warned),
         Meant(output, warned)
  PROVE  TransformInv'
<1>1. req' = req /\ opt' = opt /\ grown' = grown
  OBVIOUS
<1>2. result'.file = output /\ result'.warnings = warned
  BY DEF Answer
<1>3. ShownAsMeant'
  BY <1>1, <1>2 DEF ShownAsMeant, Meant, AskedTurn
<1>4. grown \in Nat /\ grown <= MaxOutput
  BY DEF TransformInv
<1>. QED  BY <1>1, <1>3, <1>4 DEF TransformInv, RasterStages, DrawingStages, ImageStages

\* ... or goes on to the next stage.
LEMMA GoesOn ==
  ASSUME stage' \in ImageStages, grown' \in Nat, grown' <= MaxOutput, SoundOptions(opt'), Pictured',
         stage' = "crop" => opt'.crop # <<>>,
         stage' = "encode" /\ opt'.watermark # <<>> =>
           WatermarkFits(opt'.watermark[1].image.size, image'.size, opt'.watermark[1].position,
                         opt'.watermark[1].margin)
  PROVE  TransformInv'
<1>1. ShownAsMeant'
  BY DEF ShownAsMeant, Succeeded, Done, ImageStages
<1>2. stage' \notin {"accept", "done"} \cup RasterStages \cup DrawingStages
  BY DEF RasterStages, DrawingStages, ImageStages
<1>. QED  BY <1>1, <1>2 DEF TransformInv, RasterStages

LEMMA ImageFacts ==
  ASSUME TransformInv, stage \in ImageStages
  PROVE  /\ grown \in Nat /\ grown <= MaxOutput /\ SoundOptions(opt) /\ Pictured
         /\ image.size \in Sizes
         /\ image = [size |-> image.size, alpha |-> image.alpha, turn |-> image.turn,
                     diagonal |-> image.diagonal]
<1>1. stage \notin {"accept", "done"}
  BY DEF ImageStages
<1>2. grown \in Nat /\ grown <= MaxOutput /\ SoundOptions(opt) /\ Pictured
  BY <1>1 DEF TransformInv
<1>. QED  BY <1>2 DEF Pictured

-----------------------------------------------------------------------------
(* Before the pixels *)

LEMMA AcceptKeeps ==
  ASSUME TransformInv, Accept
  PROVE  TransformInv'
<1>. DEFINE refusal == NormalizeRefusal(req.options, req.input.type, req.watermark)
            n == Normalized(req.options, req.input.type, req.watermark)
<1>1. /\ stage = "accept" /\ req.input.type # "svg"
      /\ \/ \E e : Fail(e)
         \/ /\ refusal = "ok" /\ opt' = n
            /\ stage' = IF n.optimize = "lossless" /\ n.format = "jpeg" THEN "lossless" ELSE "metadata"
            /\ UNCHANGED <<req, grown>>
  BY DEF Accept
<1>2. req \in Requests /\ grown \in Nat /\ grown <= MaxOutput
  BY <1>1 DEF TransformInv
<1>3. CASE \E e : Fail(e)
  BY <1>3, TransformFails
<1>4. CASE ~ \E e : Fail(e)
  <2>1. SoundOptions(n)
    BY <1>1, <1>2, <1>4, AcceptedSound
  <2>. HIDE DEF n, refusal
  <2>2. /\ opt' = n /\ req' = req /\ grown' = grown /\ stage' \in {"lossless", "metadata"}
        /\ stage' = "lossless" => opt'.format = "jpeg"
    BY <1>1, <1>4
  <2>3. ShownAsMeant'
    BY <2>2 DEF ShownAsMeant, Succeeded, Done
  <2>. QED  BY <1>1, <1>2, <2>1, <2>2, <2>3 DEF TransformInv, RasterStages, DrawingStages, ImageStages
<1>. QED  BY <1>3, <1>4

\* The input's own bytes are shown the way the input is.
LEMMA OwnBytesMeant ==
  ASSUME req \in Requests, SoundOptions(opt), MayPassThrough,
         opt.format \in {"jpeg", "png", "webp"},
         NEW warned, OrientationWarning(OwnBytes.tag) \subseteq warned
  PROVE  Meant(OwnBytes, warned)
<1>. DEFINE tag == TagOf(req.input)
            kept0 == "exif" \in KeptInPlace
<1>1. /\ req.input.type \in {"jpeg", "png", "webp"} /\ opt.rotate = 0
      /\ ~ opt.autoOrient \/ tag \in {0, 1} \/ "exif" \in PolicyKinds(opt.policy)
  BY DEF MayPassThrough, OrientationIsNoop
<1>2. /\ tag \in 0..8 /\ tag = req.input.tag
      /\ tag # 0 => "exif" \in req.input.kinds
  BY <1>1, TagFacts
<1>3. /\ OwnBytes.turn = <<0, 0>> /\ OwnBytes.tag = IF kept0 THEN tag ELSE 0
      /\ kept0 <=> "exif" \in req.input.kinds /\ "exif" \in PolicyKinds(opt.policy)
  BY <1>2 DEF OwnBytes, KeptInPlace
<1>4. QuarterTurns(opt.rotate) = 0 /\ AskedTurn = 0
  <2>1. QuarterTurns(0) = 0
    BY QuarterFacts
  <2>. QED  BY <1>1, <2>1 DEF AskedTurn, None
<1>. HIDE DEF tag, kept0
<1>5. CASE opt.autoOrient
  <2>1. Shown(OwnBytes.tag) = Shown(tag)
    <3>1. Shown(0) = <<0, 0>> /\ Shown(1) = <<0, 0>>
      BY ShownIs DEF OrientationTurn
    <3>. QED  BY <1>1, <1>2, <1>3, <1>5, <3>1
  <2>2. Shown(tag) \in Turns
    BY <1>2, ShownIs
  <2>. QED  BY <1>3, <1>4, <1>5, <2>1, <2>2, NoTurn DEF Meant, tag
<1>6. CASE ~ opt.autoOrient
  <2>. SUFFICES ASSUME tag \in 2..8, OwnBytes.tag # tag
                PROVE  \E w \in warned : w.warning = "OrientationDropped"
    BY <1>6 DEF Meant, tag
  <2>1. OwnBytes.tag = 0
    BY <1>3
  <2>2. OrientationWarning(OwnBytes.tag) = {[warning |-> "OrientationDropped", kind |-> "orientation"]}
    BY <1>6, <2>1 DEF OrientationWarning, tag
  <2>. QED  BY <2>2
<1>. QED  BY <1>5, <1>6

LEMMA LosslessKeeps ==
  ASSUME TransformInv, LosslessJpeg
  PROVE  TransformInv'
<1>1. /\ stage = "lossless"
      /\ \/ \E e : Fail(e)
         \/ /\ MayPassThrough /\ stage' = "done" /\ UNCHANGED <<req, opt, grown>>
            /\ result' = Answer(OwnBytes, req.input.size, req.input.alpha, OrientationWarning(OwnBytes.tag))
  BY DEF LosslessJpeg
<1>2. req \in Requests /\ SoundOptions(opt) /\ opt.format = "jpeg"
  BY <1>1 DEF TransformInv, RasterStages
<1>3. CASE \E e : Fail(e)
  BY <1>3, TransformFails
<1>4. CASE ~ \E e : Fail(e)
  <2>1. Meant(OwnBytes, OrientationWarning(OwnBytes.tag))
    BY <1>1, <1>2, <1>4, OwnBytesMeant
  <2>. QED  BY <1>1, <1>4, <2>1, Answers
<1>. QED  BY <1>3, <1>4

LEMMA MetadataKeeps ==
  ASSUME TransformInv, ExtractMetadata
  PROVE  TransformInv'
<1>1. /\ stage = "metadata"
      /\ (\E e : Fail(e)) \/ (stage' = "decode" /\ UNCHANGED <<req, opt, grown>>)
  BY DEF ExtractMetadata, Unchecked
<1>2. /\ req \in Requests /\ SoundOptions(opt) /\ req.input.type # "svg"
      /\ grown \in Nat /\ grown <= MaxOutput
  BY <1>1 DEF TransformInv, RasterStages
<1>3. CASE \E e : Fail(e)
  BY <1>3, TransformFails
<1>4. CASE ~ \E e : Fail(e)
  <2>1. stage' = "decode" /\ req' = req /\ opt' = opt /\ grown' = grown
    BY <1>1, <1>4
  <2>2. ShownAsMeant'
    BY <2>1 DEF ShownAsMeant, Succeeded, Done
  <2>. QED  BY <1>2, <2>1, <2>2 DEF TransformInv, RasterStages, DrawingStages, ImageStages
<1>. QED  BY <1>3, <1>4

LEMMA DecodeKeeps ==
  ASSUME TransformInv, Decode
  PROVE  TransformInv'
<1>1. /\ stage = "decode"
      /\ \/ \E e : Fail(e)
         \/ /\ image' = [NoImage EXCEPT !.size = req.input.decoded, !.alpha = req.input.alpha]
            /\ Work("rotate") /\ UNCHANGED <<req, opt, grown>>
  BY DEF Decode
<1>2. /\ req \in Requests /\ SoundOptions(opt) /\ req.input.type # "svg"
      /\ grown \in Nat /\ grown <= MaxOutput
  BY <1>1 DEF TransformInv, RasterStages
<1>3. CASE \E e : Fail(e)
  BY <1>3, TransformFails
<1>4. CASE ~ \E e : Fail(e)
  <2>1. /\ req' = req /\ opt' = opt /\ grown' = grown
        /\ stage' = "rotate" \/ (stage' = "done" /\ result'.status # "ok")
    BY <1>1, <1>4, WorkFacts
  <2>2. req.input.decoded \in Sizes
    BY <1>2, RequestsAssumption
  <2>3. image' = [size |-> req.input.decoded, alpha |-> req.input.alpha, turn |-> <<0, 0>>,
                  diagonal |-> FALSE]
    BY <1>1, <1>4 DEF NoImage
  <2>4. CASE stage' = "rotate"
    <3>1. Pictured'
      BY <1>2, <2>1, <2>2, <2>3, <2>4 DEF Pictured, TurnedSoFar
    <3>. QED  BY <1>2, <2>1, <2>4, <3>1, GoesOn DEF ImageStages
  <2>5. CASE stage' # "rotate"
    BY <1>2, <2>1, <2>5, TransformEnds
  <2>. QED  BY <2>4, <2>5
<1>. QED  BY <1>3, <1>4

-----------------------------------------------------------------------------
(* The pixel stages *)

LEMMA GreaterFacts ==
  ASSUME NEW a \in Nat, NEW b \in Nat, a <= MaxOutput, b <= MaxOutput
  PROVE  Greater(a, b) \in Nat /\ Greater(a, b) <= MaxOutput
BY DEF Greater

\* A stage that leaves an image of some size, and the rest as it was.
LEMMA StageEnds ==
  ASSUME SoundOptions(opt), UNCHANGED <<req, opt>>, grown' \in Nat, grown' <= MaxOutput,
         NEW s \in ImageStages, Work(s), s # "rotate",
         image'.size \in Sizes,
         image' = [size |-> image'.size, alpha |-> image'.alpha, turn |-> image'.turn,
                   diagonal |-> image'.diagonal],
         req.input.type = "svg" =>
           (s = "crop" /\ opt.crop # <<>> => req.input.region \in Rectangles),
         req.input.type # "svg" => req \in Requests /\
           (opt.autoOrient =>
              image'.turn = Then(OrientationTurn(TagOf(req.input)), <<0, AskedTurn>>)),
         s = "crop" => opt.crop # <<>>,
         s = "encode" /\ opt.watermark # <<>> =>
           WatermarkFits(opt.watermark[1].image.size, image'.size, opt.watermark[1].position,
                         opt.watermark[1].margin)
  PROVE  TransformInv'
<1>1. req' = req /\ opt' = opt
  OBVIOUS
<1>2. stage' = s \/ (stage' = "done" /\ result'.status # "ok")
  BY WorkFacts
<1>3. CASE stage' = s
  <2>1. Pictured'
    BY <1>1, <1>3 DEF Pictured, TurnedSoFar, AskedTurn
  <2>. QED  BY <1>1, <1>3, <2>1, GoesOn
<1>4. CASE stage' # s
  BY <1>2, <1>4, TransformEnds
<1>. QED  BY <1>3, <1>4

LEMMA RotateKeeps ==
  ASSUME TransformInv, Rotate
  PROVE  TransformInv'
<1>. DEFINE tag == TagOf(req.input)
            g == OrientationTurn(tag)
            upright == IF opt.autoOrient THEN Turned(image, g) ELSE image
            canvas == RotatedBox(upright.size, opt.rotate)
            q == QuarterTurns(opt.rotate)
<1>1. /\ stage = "rotate"
      /\ \/ /\ q # None /\ image' = Turned(upright, <<0, q>>) /\ grown' = grown
            /\ Work(After("rotate")) /\ UNCHANGED <<req, opt>>
         \/ \E e : Fail(e)
         \/ /\ q = None /\ ~ (Pixels(canvas) > MaxOutput)
            /\ image' = [upright EXCEPT !.size = canvas, !.diagonal = TRUE,
                           !.alpha = upright.alpha \/ FillsClear]
            /\ grown' = Greater(grown, Pixels(canvas))
            /\ Work(After("rotate")) /\ UNCHANGED <<req, opt>>
  BY DEF Rotate
<1>2. /\ grown \in Nat /\ grown <= MaxOutput /\ SoundOptions(opt) /\ Pictured /\ image.size \in Sizes
      /\ image = [size |-> image.size, alpha |-> image.alpha, turn |-> image.turn,
                  diagonal |-> image.diagonal]
  BY <1>1, ImageFacts DEF ImageStages
<1>3. q \in (0..3) \cup {None} /\ opt.autoOrient \in BOOLEAN
  BY <1>2, QuarterFacts DEF SoundOptions
<1>4. /\ req.input.type # "svg" => req \in Requests /\ image.turn = <<0, 0>>
      /\ req.input.type = "svg" => (opt.crop # <<>> => req.input.region \in Rectangles)
  BY <1>1, <1>2 DEF Pictured, TurnedSoFar
<1>5. req.input.type # "svg" => g \in Turns
  BY <1>4, TagFacts, ShownIs
<1>6. ASSUME NEW img, NEW t, img.size \in Sizes,
             img = [size |-> img.size, alpha |-> img.alpha, turn |-> img.turn, diagonal |-> img.diagonal]
      PROVE  /\ Turned(img, t).size \in Sizes
             /\ Turned(img, t).turn = Then(img.turn, t)
             /\ Turned(img, t) = [size |-> Turned(img, t).size, alpha |-> img.alpha,
                                  turn |-> Then(img.turn, t), diagonal |-> img.diagonal]
  <2>. DEFINE z == IF t[2] % 2 = 1 THEN <<img.size[2], img.size[1]>> ELSE img.size
  <2>1. z \in Sizes
    BY <1>6 DEF Sizes
  <2>2. Turned(img, t) = [img EXCEPT !.turn = Then(img.turn, t), !.size = z]
    BY DEF Turned
  <2>. HIDE DEF z
  <2>3. Turned(img, t) = [size |-> z, alpha |-> img.alpha, turn |-> Then(img.turn, t),
                          diagonal |-> img.diagonal]
    BY <1>6, <2>2
  <2>. QED  BY <2>1, <2>3
<1>. HIDE DEF g
<1>7. /\ upright.size \in Sizes
      /\ upright = [size |-> upright.size, alpha |-> upright.alpha, turn |-> upright.turn,
                    diagonal |-> upright.diagonal]
      /\ opt.autoOrient => upright.turn = Then(image.turn, g)
  <2>1. CASE opt.autoOrient
    <3>. DEFINE u == Turned(image, g)
    <3>1. /\ u.size \in Sizes /\ u.turn = Then(image.turn, g)
          /\ u = [size |-> u.size, alpha |-> image.alpha, turn |-> Then(image.turn, g),
                  diagonal |-> image.diagonal]
      BY <1>2, <1>6
    <3>2. upright = u
      BY <2>1
    <3>. HIDE DEF u, upright
    <3>3. u.alpha = image.alpha /\ u.diagonal = image.diagonal
      BY <3>1
    <3>. QED  BY <3>1, <3>2, <3>3
  <2>2. CASE ~ opt.autoOrient
    <3>1. upright = image
      BY <2>2
    <3>. HIDE DEF upright
    <3>. QED  BY <1>2, <2>2, <3>1
  <2>. QED  BY <2>1, <2>2
<1>. HIDE DEF upright
<1>8. opt.autoOrient /\ req.input.type # "svg" => upright.turn = g
  BY <1>4, <1>5, <1>7, NoTurn
<1>9. /\ After("rotate") \in ImageStages /\ After("rotate") # "rotate" /\ After("rotate") # "encode"
      /\ After("rotate") = "crop" => opt.crop # <<>>
  BY StageFacts DEF ImageStages
<1>10. CASE \E e : Fail(e)
  BY <1>10, TransformFails
<1>11. CASE q # None /\ ~ \E e : Fail(e)
  <2>1. /\ image' = Turned(upright, <<0, q>>) /\ grown' = grown
        /\ Work(After("rotate")) /\ UNCHANGED <<req, opt>>
    BY <1>1, <1>11
  <2>2. /\ image'.size \in Sizes /\ image'.turn = Then(upright.turn, <<0, q>>)
        /\ image' = [size |-> image'.size, alpha |-> upright.alpha, turn |-> image'.turn,
                     diagonal |-> upright.diagonal]
    BY <1>6, <1>7, <2>1
  <2>3. image'.alpha = upright.alpha /\ image'.diagonal = upright.diagonal
    BY <2>2
  <2>4. AskedTurn = q
    BY <1>11 DEF AskedTurn
  <2>5. req.input.type # "svg" => req \in Requests /\
          (opt.autoOrient => image'.turn = Then(OrientationTurn(TagOf(req.input)), <<0, AskedTurn>>))
    BY <1>4, <1>8, <2>2, <2>4 DEF g
  <2>. HIDE DEF q
  <2>. QED  BY <1>2, <1>4, <1>9, <2>1, <2>2, <2>3, <2>5, StageEnds
<1>12. CASE q = None /\ ~ \E e : Fail(e)
  <2>1. /\ ~ (Pixels(canvas) > MaxOutput)
        /\ image' = [upright EXCEPT !.size = canvas, !.diagonal = TRUE,
                       !.alpha = upright.alpha \/ FillsClear]
        /\ grown' = Greater(grown, Pixels(canvas))
        /\ Work(After("rotate")) /\ UNCHANGED <<req, opt>>
    BY <1>1, <1>12
  <2>2. canvas \in Sizes
    BY <1>7, RotatedPositive
  <2>. HIDE DEF canvas
  <2>3. Pixels(canvas) \in Nat
    BY <2>2, PixelsFacts
  <2>4. grown' \in Nat /\ grown' <= MaxOutput
    <3>1. Pixels(canvas) <= MaxOutput
      BY <2>1, <2>3, LimitsAssumption
    <3>. QED  BY <1>2, <2>1, <2>3, <3>1, GreaterFacts
  <2>5. image' = [size |-> canvas, alpha |-> upright.alpha \/ FillsClear, turn |-> upright.turn,
                  diagonal |-> TRUE]
    BY <1>7, <2>1
  <2>6. /\ image'.size \in Sizes /\ image'.turn = upright.turn
        /\ image' = [size |-> image'.size, alpha |-> image'.alpha, turn |-> image'.turn,
                     diagonal |-> image'.diagonal]
    BY <2>2, <2>5
  <2>7. AskedTurn = 0
    BY <1>12 DEF AskedTurn
  <2>8. req.input.type # "svg" => req \in Requests /\
          (opt.autoOrient => image'.turn = Then(OrientationTurn(TagOf(req.input)), <<0, AskedTurn>>))
    BY <1>4, <1>5, <1>8, <2>6, <2>7, NoTurn DEF g
  <2>. HIDE DEF q
  <2>. QED  BY <1>2, <1>4, <1>9, <2>1, <2>4, <2>6, <2>8, StageEnds
<1>. QED  BY <1>10, <1>11, <1>12

\* What a later stage finds: the image is as the rotation left it.
LEMMA LaterFacts ==
  ASSUME TransformInv, stage \in ImageStages, stage # "rotate"
  PROVE  /\ req.input.type # "svg" => req \in Requests /\
              (opt.autoOrient => image.turn = Then(OrientationTurn(TagOf(req.input)), <<0, AskedTurn>>))
         /\ req.input.type = "svg" /\ stage = "crop" => req.input.region \in Rectangles
<1>1. Pictured
  BY ImageFacts
<1>2. stage = "crop" => opt.crop # <<>>
  BY DEF TransformInv
<1>. QED  BY <1>1, <1>2 DEF Pictured, TurnedSoFar

LEMMA CropKeeps ==
  ASSUME TransformInv, Crop
  PROVE  TransformInv'
<1>1. /\ stage = "crop"
      /\ \/ \E e : Fail(e)
         \/ /\ image' = [image EXCEPT !.size = <<CropRegion[3], CropRegion[4]>>]
            /\ Work(After("crop")) /\ UNCHANGED <<req, opt, grown>>
  BY DEF Crop
<1>2. /\ grown \in Nat /\ grown <= MaxOutput /\ SoundOptions(opt) /\ image.size \in Sizes
      /\ image = [size |-> image.size, alpha |-> image.alpha, turn |-> image.turn,
                  diagonal |-> image.diagonal]
  BY <1>1, ImageFacts DEF ImageStages
<1>3. /\ req.input.type # "svg" => req \in Requests /\
           (opt.autoOrient => image.turn = Then(OrientationTurn(TagOf(req.input)), <<0, AskedTurn>>))
      /\ req.input.type = "svg" => req.input.region \in Rectangles
  BY <1>1, LaterFacts DEF ImageStages
<1>4. CropRegion \in Rectangles
  <2>1. opt.crop \in Rectangles
    BY <1>1, <1>2 DEF TransformInv, SoundOptions
  <2>. QED  BY <1>3, <2>1 DEF CropRegion
<1>5. <<CropRegion[3], CropRegion[4]>> \in Sizes
  BY <1>4 DEF Rectangles, Sizes
<1>6. CASE \E e : Fail(e)
  BY <1>6, TransformFails
<1>7. CASE ~ \E e : Fail(e)
  <2>1. /\ image' = [image EXCEPT !.size = <<CropRegion[3], CropRegion[4]>>]
        /\ Work("resize") /\ UNCHANGED <<req, opt>> /\ grown' = grown
    BY <1>1, <1>7, StageFacts
  <2>2. /\ image' = [size |-> image'.size, alpha |-> image'.alpha, turn |-> image'.turn,
                     diagonal |-> image'.diagonal]
        /\ image'.size \in Sizes /\ image'.turn = image.turn
    BY <1>2, <1>5, <2>1
  <2>. QED  BY <1>2, <1>3, <2>1, <2>2, StageEnds DEF ImageStages
<1>. QED  BY <1>6, <1>7

LEMMA ResizeKeeps ==
  ASSUME TransformInv, Resize
  PROVE  TransformInv'
<1>. DEFINE inner == ContentSize(image.size, opt.width, opt.height, opt.fit, opt.withoutEnlargement)
            size == ResolvedSize(image.size, opt.width, opt.height, opt.fit, opt.withoutEnlargement)
<1>1. /\ stage = "resize"
      /\ \/ \E e : Fail(e)
         \/ /\ ~ ExceedsOutput(inner, size)
            /\ image' = [image EXCEPT !.size = size,
                           !.alpha = @ \/ (Padded(inner, size) /\ FillsClear)]
            /\ grown' = Greater(grown, Allocated(inner, size))
            /\ Work(After("resize")) /\ UNCHANGED <<req, opt>>
  BY DEF Resize
<1>2. /\ grown \in Nat /\ grown <= MaxOutput /\ SoundOptions(opt) /\ image.size \in Sizes
      /\ image = [size |-> image.size, alpha |-> image.alpha, turn |-> image.turn,
                  diagonal |-> image.diagonal]
  BY <1>1, ImageFacts DEF ImageStages
<1>3. req.input.type # "svg" => req \in Requests /\
        (opt.autoOrient => image.turn = Then(OrientationTurn(TagOf(req.input)), <<0, AskedTurn>>))
  BY <1>1, LaterFacts DEF ImageStages
<1>4. opt.width \in Axes /\ opt.height \in Axes
  BY <1>2 DEF SoundOptions
<1>5. /\ size \in Sizes /\ inner \in Sizes
      /\ opt.fit # "cover" => Pixels(inner) <= Pixels(size)
  BY <1>2, <1>4, ResolvedPositive, ContentPositive, ContentWithin
<1>6. CASE \E e : Fail(e)
  BY <1>6, TransformFails
<1>7. CASE ~ \E e : Fail(e)
  <2>. HIDE DEF inner, size
  <2>1. /\ ~ ExceedsOutput(inner, size)
        /\ image' = [image EXCEPT !.size = size,
                       !.alpha = @ \/ (Padded(inner, size) /\ FillsClear)]
        /\ grown' = Greater(grown, Allocated(inner, size))
        /\ Work(After("resize")) /\ UNCHANGED <<req, opt>>
    BY <1>1, <1>7
  <2>2. Pixels(size) \in Nat /\ Pixels(inner) \in Nat
    BY <1>5, PixelsFacts
  <2>3. Pixels(size) <= MaxOutput /\ Pixels(inner) <= MaxOutput
    <3>1. ~ (Pixels(size) > MaxOutput) /\ (opt.fit = "cover" => ~ (Pixels(inner) > MaxOutput))
      BY <2>1 DEF ExceedsOutput
    <3>. QED  BY <1>5, <2>2, <3>1, LimitsAssumption
  <2>4. Allocated(inner, size) \in Nat /\ Allocated(inner, size) <= MaxOutput
    BY <2>2, <2>3, GreaterFacts DEF Allocated
  <2>5. grown' \in Nat /\ grown' <= MaxOutput
    BY <1>2, <2>1, <2>4, GreaterFacts
  <2>6. /\ image' = [size |-> image'.size, alpha |-> image'.alpha, turn |-> image'.turn,
                     diagonal |-> image'.diagonal]
        /\ image'.size \in Sizes /\ image'.turn = image.turn
    BY <1>2, <1>5, <2>1
  <2>7. /\ After("resize") \in {"blur", "sharpen", "grayscale", "watermark", "encode"}
        /\ After("resize") = "encode" => opt.watermark = <<>>
    BY StageFacts
  <2>8. /\ After("resize") \in ImageStages /\ After("resize") # "rotate" /\ After("resize") # "crop"
    BY <2>7 DEF ImageStages
  <2>. QED  BY <1>2, <1>3, <2>1, <2>5, <2>6, <2>7, <2>8, StageEnds
<1>. QED  BY <1>6, <1>7

LEMMA FilterKeeps ==
  ASSUME TransformInv, NEW s \in {"blur", "sharpen", "grayscale"}, Filter(s)
  PROVE  TransformInv'
<1>1. stage = s /\ Work(After(s)) /\ UNCHANGED <<req, opt, image, grown>>
  BY DEF Filter
<1>2. /\ grown \in Nat /\ grown <= MaxOutput /\ SoundOptions(opt) /\ image.size \in Sizes
      /\ image = [size |-> image.size, alpha |-> image.alpha, turn |-> image.turn,
                  diagonal |-> image.diagonal]
  BY <1>1, ImageFacts DEF ImageStages
<1>3. req.input.type # "svg" => req \in Requests /\
        (opt.autoOrient => image.turn = Then(OrientationTurn(TagOf(req.input)), <<0, AskedTurn>>))
  BY <1>1, LaterFacts DEF ImageStages
<1>4. /\ After(s) \in {"blur", "sharpen", "grayscale", "watermark", "encode"}
      /\ After(s) = "encode" => opt.watermark = <<>>
  BY StageFacts
<1>5. After(s) \in ImageStages /\ After(s) # "rotate" /\ After(s) # "crop"
  BY <1>4 DEF ImageStages
<1>6. image' = image /\ grown' = grown
  BY <1>1
<1>. QED  BY <1>1, <1>2, <1>3, <1>4, <1>5, <1>6, StageEnds

LEMMA WatermarkKeeps ==
  ASSUME TransformInv, Watermark
  PROVE  TransformInv'
<1>. DEFINE wm == opt.watermark[1]
<1>1. /\ stage = "watermark"
      /\ \/ \E e : Fail(e)
         \/ /\ WatermarkFits(wm.image.size, image.size, wm.position, wm.margin)
            /\ Work("encode") /\ UNCHANGED <<req, opt, image, grown>>
  BY DEF Watermark
<1>2. /\ grown \in Nat /\ grown <= MaxOutput /\ SoundOptions(opt) /\ image.size \in Sizes
      /\ image = [size |-> image.size, alpha |-> image.alpha, turn |-> image.turn,
                  diagonal |-> image.diagonal]
  BY <1>1, ImageFacts DEF ImageStages
<1>3. req.input.type # "svg" => req \in Requests /\
        (opt.autoOrient => image.turn = Then(OrientationTurn(TagOf(req.input)), <<0, AskedTurn>>))
  BY <1>1, LaterFacts DEF ImageStages
<1>4. CASE \E e : Fail(e)
  BY <1>4, TransformFails
<1>5. CASE ~ \E e : Fail(e)
  <2>1. /\ WatermarkFits(wm.image.size, image.size, wm.position, wm.margin)
        /\ Work("encode") /\ UNCHANGED <<req, opt>> /\ image' = image /\ grown' = grown
    BY <1>1, <1>5
  <2>. QED  BY <1>2, <1>3, <2>1, StageEnds DEF ImageStages
<1>. QED  BY <1>4, <1>5

-----------------------------------------------------------------------------
(* Encoding *)

\* While encoders run, nothing they are given changes.
LEMMA EncodeStays ==
  ASSUME TransformInv, stage = "encode", UNCHANGED <<req, opt, image, grown>>,
         stage' = "encode" \/ (stage' = "done" /\ result'.status # "ok")
  PROVE  TransformInv'
<1>1. req' = req /\ opt' = opt /\ image' = image /\ grown' = grown
  OBVIOUS
<1>2. grown \in Nat /\ grown <= MaxOutput /\ SoundOptions(opt) /\ Pictured
  BY ImageFacts DEF ImageStages
<1>3. opt.watermark # <<>> =>
        WatermarkFits(opt.watermark[1].image.size, image.size, opt.watermark[1].position,
                      opt.watermark[1].margin)
  BY DEF TransformInv
<1>4. CASE stage' = "encode"
  <2>1. Pictured'
    BY <1>1, <1>2, <1>4 DEF Pictured, TurnedSoFar, AskedTurn
  <2>. QED  BY <1>1, <1>2, <1>3, <1>4, <2>1, GoesOn DEF ImageStages
<1>5. CASE stage' # "encode"
  BY <1>1, <1>2, <1>5, TransformEnds
<1>. QED  BY <1>4, <1>5

LEMMA EncodersKeep ==
  ASSUME TransformInv,
         \/ Encode \/ EncoderFails \/ TryPngStrategy \/ EncodeAtQuality \/ EncodeUnavailable
         \/ ProbeQuality \/ EndSearch
  PROVE  TransformInv'
<1>1. /\ stage = "encode"
      /\ \/ \E e : Fail(e)
         \/ EncodeWork
         \/ UNCHANGED <<req, opt, stage, image, grown>>
  BY DEF Encode, EncoderFails, TryPngStrategy, EncodeAtQuality, EncodeUnavailable, ProbeQuality,
         EndSearch, BaselineEncode, LosslessEncode
<1>2. CASE \E e : Fail(e)
  BY <1>2, TransformFails
<1>3. CASE EncodeWork
  <2>1. Work("encode") /\ UNCHANGED <<req, opt, image, grown>>
    BY <1>3 DEF EncodeWork
  <2>. QED  BY <1>1, <2>1, WorkFacts, EncodeStays
<1>4. CASE UNCHANGED <<req, opt, stage, image, grown>>
  BY <1>1, <1>4, EncodeStays
<1>. QED  BY <1>1, <1>2, <1>3, <1>4

\* The encode is shown as meant: upright pixels under a tag that says so, unless
\* the tag could not be reset, or pixels as stored under the tag they had.
LEMMA EncodedMeant ==
  ASSUME req \in Requests, SoundOptions(opt),
         opt.autoOrient => image.turn = Then(OrientationTurn(TagOf(req.input)), <<0, AskedTurn>>),
         NEW rewritable, NEW warned, OrientationWarning(Encoded(rewritable).tag) \subseteq warned
  PROVE  Meant(Encoded(rewritable), warned)
<1>. DEFINE tag == TagOf(req.input)
            output == Encoded(rewritable)
<1>1. tag \in 0..8
  BY TagFacts
<1>2. /\ output.turn = image.turn /\ output.source = "encode"
      /\ \/ output.tag = 0
         \/ output.tag = tag /\ req.input.form # "short"
         \/ output.tag = IF opt.autoOrient /\ tag # 0 THEN 1 ELSE tag
  BY DEF Encoded, TagReset
<1>3. opt.autoOrient \in BOOLEAN /\ AskedTurn \in 0..3
  <2>1. opt.rotate \in 0..359 /\ opt.autoOrient \in BOOLEAN
    BY DEF SoundOptions
  <2>2. QuarterTurns(opt.rotate) \in (0..3) \cup {None}
    BY <2>1, QuarterFacts
  <2>. QED  BY <2>1, <2>2 DEF AskedTurn
<1>. HIDE DEF output, tag
<1>4. CASE opt.autoOrient /\ ~(output.tag = tag /\ req.input.form # "short")
  <2>1. output.tag \in {0, 1}
    BY <1>2, <1>4
  <2>2. Shown(0) = <<0, 0>> /\ Shown(1) = <<0, 0>>
    BY ShownIs DEF OrientationTurn
  <2>3. Shown(tag) = OrientationTurn(tag) /\ OrientationTurn(tag) \in Turns
    BY <1>1, ShownIs
  <2>4. image.turn = Then(OrientationTurn(tag), <<0, AskedTurn>>)
    BY <1>4 DEF tag
  <2>. HIDE DEF Turns
  <2>5. image.turn \in Turns
    BY <1>3, <2>3, <2>4, TurnsCompose
  <2>6. Then(output.turn, Shown(output.tag)) = image.turn
    BY <1>2, <2>1, <2>2, <2>5, NoTurn
  <2>. QED  BY <1>4, <2>3, <2>4, <2>6 DEF Meant, tag, output
<1>5. CASE ~ opt.autoOrient
  <2>. SUFFICES ASSUME tag \in 2..8, output.tag # tag
                PROVE  \E w \in warned : w.warning = "OrientationDropped"
    BY <1>5 DEF Meant, tag, output
  <2>1. output.tag = 0
    BY <1>2, <1>5
  <2>2. OrientationWarning(output.tag) = {[warning |-> "OrientationDropped", kind |-> "orientation"]}
    BY <1>5, <2>1 DEF OrientationWarning, tag
  <2>. QED  BY <2>2 DEF output
<1>6. CASE opt.autoOrient /\ output.tag = tag /\ req.input.form # "short"
  BY <1>2, <1>6 DEF Meant, tag, output
<1>. QED  BY <1>3, <1>4, <1>5, <1>6

LEMMA FinishKeeps ==
  ASSUME TransformInv, Finish
  PROVE  TransformInv'
<1>1. /\ stage = "encode" /\ req.input.type # "svg" /\ stage' = "done"
      /\ UNCHANGED <<req, opt, grown>>
  BY DEF Finish
<1>2. PICK rewritable \in Rewritable :
        LET encoded == Encoded(rewritable)
            output == IF PassesThrough(encoded) THEN OwnBytes ELSE encoded
            search == IF enc.shortfall /\ ~PassesThrough(encoded)
                      THEN {[warning |-> "TargetQualityNotReached", kind |-> "quality"]} ELSE {}
        IN result' = Answer(output, image.size, HasAlpha,
                            warnings \cup InjectionWarnings(rewritable) \cup search
                              \cup OrientationWarning(output.tag))
  BY DEF Finish
<1>. DEFINE encoded == Encoded(rewritable)
            output == IF PassesThrough(encoded) THEN OwnBytes ELSE encoded
            search == IF enc.shortfall /\ ~PassesThrough(encoded)
                      THEN {[warning |-> "TargetQualityNotReached", kind |-> "quality"]} ELSE {}
            warned == warnings \cup InjectionWarnings(rewritable) \cup search
                        \cup OrientationWarning(output.tag)
<1>3. result' = Answer(output, image.size, HasAlpha, warned)
  BY <1>2
<1>4. OrientationWarning(output.tag) \subseteq warned
  OBVIOUS
<1>. HIDE DEF warned
<1>5. /\ SoundOptions(opt) /\ req \in Requests
      /\ opt.autoOrient => image.turn = Then(OrientationTurn(TagOf(req.input)), <<0, AskedTurn>>)
  BY <1>1, ImageFacts, LaterFacts DEF ImageStages
<1>6. Meant(output, warned)
  <2>1. CASE PassesThrough(encoded)
    <3>1. output = OwnBytes /\ MayPassThrough /\ opt.format \in {"jpeg", "png", "webp"}
      BY <2>1 DEF PassesThrough
    <3>. HIDE DEF output
    <3>. QED  BY <1>4, <1>5, <3>1, OwnBytesMeant
  <2>2. CASE ~ PassesThrough(encoded)
    <3>1. output = Encoded(rewritable)
      BY <2>2
    <3>. HIDE DEF output
    <3>. QED  BY <1>4, <1>5, <3>1, EncodedMeant
  <2>. QED  BY <2>1, <2>2
<1>. HIDE DEF output
<1>. QED  BY <1>1, <1>3, <1>6, Answers

-----------------------------------------------------------------------------
(* Drawings *)

LEMMA AcceptSvgKeeps ==
  ASSUME TransformInv, AcceptSvg
  PROVE  TransformInv'
<1>. DEFINE n == Normalized(req.options, "svg", req.watermark)
<1>1. /\ stage = "accept" /\ req.input.type = "svg"
      /\ \/ \E e : Fail(e)
         \/ /\ NormalizeRefusal(req.options, "svg", req.watermark) = "ok"
            /\ opt' = n /\ stage' = "sanitize" /\ UNCHANGED <<req, grown>>
  BY DEF AcceptSvg
<1>2. req \in Requests /\ grown \in Nat /\ grown <= MaxOutput
  BY <1>1 DEF TransformInv
<1>3. CASE \E e : Fail(e)
  BY <1>3, TransformFails
<1>4. CASE ~ \E e : Fail(e)
  <2>1. SoundOptions(n)
    BY <1>1, <1>2, <1>4, AcceptedSound
  <2>. HIDE DEF n
  <2>2. opt' = n /\ stage' = "sanitize" /\ req' = req /\ grown' = grown
    BY <1>1, <1>4
  <2>3. opt' = Normalized(req'.options, "svg", req'.watermark)
    BY <2>2 DEF n
  <2>4. ShownAsMeant'
    BY <2>2 DEF ShownAsMeant, Succeeded, Done
  <2>. QED  BY <1>1, <1>2, <2>1, <2>2, <2>3, <2>4 DEF TransformInv, RasterStages, DrawingStages, ImageStages
<1>. QED  BY <1>3, <1>4

LEMMA RasterStutters ==
  ASSUME TransformInv, UNCHANGED rasterVars
  PROVE  TransformInv'
<1>1. /\ req' = req /\ opt' = opt /\ stage' = stage /\ image' = image /\ grown' = grown
      /\ result' = result
  BY DEF rasterVars
<1>2. ShownAsMeant'
  BY <1>1 DEF TransformInv, ShownAsMeant, Succeeded, Done
<1>3. Pictured => Pictured'
  BY <1>1 DEF Pictured, TurnedSoFar, AskedTurn
<1>. QED  BY <1>1, <1>2, <1>3 DEF TransformInv

\* What a drawing's stages find.
LEMMA DrawingFacts ==
  ASSUME TransformInv, stage \in DrawingStages
  PROVE  /\ req \in Requests /\ req.input.type = "svg" /\ req.input.size \in Sizes
         /\ opt = Normalized(req.options, "svg", req.watermark) /\ SoundOptions(opt)
         /\ grown \in Nat /\ grown <= MaxOutput
<1>1. /\ req \in Requests /\ req.input.type = "svg"
      /\ opt = Normalized(req.options, "svg", req.watermark) /\ SoundOptions(opt)
      /\ grown \in Nat /\ grown <= MaxOutput
  BY DEF TransformInv, DrawingStages
<1>2. req.input.size \in Sizes
  BY <1>1, RequestsAssumption
<1>. QED  BY <1>1, <1>2

LEMMA SanitizeKeeps ==
  ASSUME TransformInv, SanitizeDocument
  PROVE  TransformInv'
<1>. DEFINE next == IF opt.format = "svg" THEN "handback" ELSE "draw"
<1>1. /\ stage = "sanitize"
      /\ \/ \E e : Fail(e)
         \/ Work(next) /\ UNCHANGED <<req, opt, grown>>
  BY DEF SanitizeDocument
<1>2. /\ req \in Requests /\ req.input.type = "svg"
      /\ opt = Normalized(req.options, "svg", req.watermark) /\ SoundOptions(opt)
      /\ grown \in Nat /\ grown <= MaxOutput
  BY <1>1, DrawingFacts DEF DrawingStages
<1>3. CASE \E e : Fail(e)
  BY <1>3, TransformFails
<1>4. CASE ~ \E e : Fail(e)
  <2>1. /\ req' = req /\ opt' = opt /\ grown' = grown
        /\ stage' \in {"handback", "draw"} \/ (stage' = "done" /\ result'.status # "ok")
    BY <1>1, <1>4, WorkFacts
  <2>2. CASE stage' \in {"handback", "draw"}
    <3>1. ShownAsMeant'
      BY <2>2 DEF ShownAsMeant, Succeeded, Done
    <3>2. opt' = Normalized(req'.options, "svg", req'.watermark)
      BY <1>2, <2>1
    <3>. QED  BY <1>2, <2>1, <2>2, <3>1, <3>2
              DEF TransformInv, RasterStages, DrawingStages, ImageStages
  <2>3. CASE stage' \notin {"handback", "draw"}
    BY <1>2, <2>1, <2>3, TransformEnds
  <2>. QED  BY <2>2, <2>3
<1>. QED  BY <1>3, <1>4

LEMMA HandBackKeeps ==
  ASSUME TransformInv, HandBack
  PROVE  TransformInv'
<1>1. /\ stage = "handback"
      /\ \/ \E e : Fail(e)
         \/ stage' = "done" /\ UNCHANGED <<req, grown>>
  BY DEF HandBack
<1>2. req.input.type = "svg" /\ grown \in Nat /\ grown <= MaxOutput
  BY <1>1, DrawingFacts DEF DrawingStages
<1>3. CASE \E e : Fail(e)
  BY <1>3, TransformFails
<1>4. CASE ~ \E e : Fail(e)
  <2>1. req' = req /\ grown' = grown /\ stage' = "done"
    BY <1>1, <1>4
  <2>. QED  BY <1>2, <2>1, TransformEnds
<1>. QED  BY <1>3, <1>4

LEMMA EncodeDrawingKeeps ==
  ASSUME TransformInv, EncodeDrawing
  PROVE  TransformInv'
<1>1. /\ stage = "encode" /\ req.input.type = "svg"
      /\ \/ \E e : Fail(e)
         \/ stage' = "done" /\ UNCHANGED <<req, grown>>
  BY DEF EncodeDrawing
<1>2. grown \in Nat /\ grown <= MaxOutput
  BY DEF TransformInv
<1>3. CASE \E e : Fail(e)
  BY <1>3, TransformFails
<1>4. CASE ~ \E e : Fail(e)
  <2>1. req' = req /\ grown' = grown /\ stage' = "done"
    BY <1>1, <1>4
  <2>. QED  BY <1>1, <1>2, <2>1, TransformEnds
<1>. QED  BY <1>3, <1>4

\* The buffer a drawing is drawn into, and what is left to cut of it, are not empty.
LEMMA DrawnPositive ==
  ASSUME req.input.size \in Sizes, SoundOptions(opt)
  PROVE  /\ Rasterization \in Sizes
         /\ opt.crop # <<>> => Scaled.crop \in Rectangles
<1>1. Turned0 \in Sizes
  BY RotatedPositive DEF Turned0
<1>2. opt.width \in Axes /\ opt.height \in Axes /\ (opt.crop = <<>> \/ opt.crop \in Rectangles)
  BY DEF SoundOptions
<1>3. Region \in Sizes
  <2>1. opt.crop # <<>> => <<opt.crop[3], opt.crop[4]>> \in Sizes
    BY <1>2 DEF Rectangles, Sizes
  <2>. QED  BY <1>1, <2>1 DEF Region
<1>4. RegionRender \in Sizes
  BY <1>2, <1>3, ContentPositive DEF RegionRender
<1>5. opt.crop # <<>> => Scaled.full \in Sizes /\ Scaled.crop \in Rectangles
  BY <1>1, <1>2, <1>4, ScaledCropPositive DEF Scaled
<1>6. FullRender \in Sizes
  BY <1>4, <1>5 DEF FullRender
<1>7. CASE DrawsRegion
  <2>1. Scaled.crop \in Rectangles
    BY <1>5, <1>7 DEF DrawsRegion
  <2>2. <<Scaled.crop[3], Scaled.crop[4]>> \in Sizes
    BY <2>1 DEF Rectangles, Sizes
  <2>. QED  BY <1>5, <1>7, <2>2 DEF Rasterization
<1>8. CASE ~ DrawsRegion
  <2>1. PreRotationSize(FullRender, req.input.size, Turned0, opt.rotate) \in Sizes
    BY <1>1, <1>6, PreRotationPositive
  <2>. QED  BY <1>5, <1>8, <2>1 DEF Rasterization
<1>. QED  BY <1>7, <1>8

LEMMA DrawKeeps ==
  ASSUME TransformInv, Draw
  PROVE  TransformInv'
<1>1. /\ stage = "draw"
      /\ \/ \E e : Fail(e)
         \/ /\ ~ (Pixels(Rasterization) > MaxOutput)
            /\ image' = [NoImage EXCEPT !.size = Rasterization, !.alpha = TRUE]
            /\ grown' = Pixels(Rasterization)
            /\ opt' = [opt EXCEPT !.crop = IF DrawsRegion THEN <<>> ELSE @]
            /\ req' = [req EXCEPT !.input.region =
                         IF opt.crop # <<>> /\ ~DrawsRegion THEN Scaled.crop ELSE <<>>]
            /\ Work("rotate")
  BY DEF Draw
<1>2. /\ req \in Requests /\ req.input.type = "svg" /\ req.input.size \in Sizes
      /\ opt = Normalized(req.options, "svg", req.watermark) /\ SoundOptions(opt)
  BY <1>1, DrawingFacts DEF DrawingStages
<1>3. Rasterization \in Sizes /\ (opt.crop # <<>> => Scaled.crop \in Rectangles)
  BY <1>2, DrawnPositive
<1>4. CASE \E e : Fail(e)
  BY <1>4, TransformFails
<1>5. CASE ~ \E e : Fail(e)
  <2>. DEFINE left == IF opt.crop # <<>> /\ ~DrawsRegion THEN Scaled.crop ELSE <<>>
              cut == IF DrawsRegion THEN <<>> ELSE opt.crop
  <2>1. /\ ~ (Pixels(Rasterization) > MaxOutput) /\ grown' = Pixels(Rasterization)
        /\ image' = [NoImage EXCEPT !.size = Rasterization, !.alpha = TRUE]
        /\ opt' = [opt EXCEPT !.crop = cut] /\ req' = [req EXCEPT !.input.region = left]
        /\ Work("rotate")
    BY <1>1, <1>5
  <2>2. cut \in {<<>>, opt.crop} /\ (cut # <<>> => left \in Rectangles)
    BY <1>3
  <2>. HIDE DEF left, cut
  <2>3. grown' \in Nat /\ grown' <= MaxOutput
    <3>1. Pixels(Rasterization) \in Nat
      BY <1>3, PixelsFacts
    <3>. QED  BY <2>1, <3>1, LimitsAssumption
  <2>4. req'.input.type = "svg" /\ req'.input.region = left
    <3>1. DOMAIN req = {"input", "options", "watermark", "webpLossy"} /\ "region" \in DOMAIN req.input
      BY <1>2, RequestsAssumption
    <3>2. req'.input = [req.input EXCEPT !.region = left]
      BY <2>1, <3>1
    <3>3. req'.input.region = left /\ req'.input.type = req.input.type
      BY <3>1, <3>2
    <3>. QED  BY <1>2, <3>3
  <2>5. /\ opt'.crop = cut /\ SoundOptions(opt')
    <3>1. /\ opt'.crop = cut /\ opt'.width = opt.width /\ opt'.height = opt.height
          /\ opt'.fit = opt.fit /\ opt'.rotate = opt.rotate /\ opt'.autoOrient = opt.autoOrient
          /\ opt'.watermark = opt.watermark
      BY <1>2, <2>1 DEF Normalized
    <3>. QED  BY <1>2, <2>2, <3>1 DEF SoundOptions
  <2>6. image' = [size |-> Rasterization, alpha |-> TRUE, turn |-> <<0, 0>>, diagonal |-> FALSE]
    BY <2>1 DEF NoImage
  <2>7. stage' = "rotate" \/ (stage' = "done" /\ result'.status # "ok")
    BY <2>1, WorkFacts
  <2>8. CASE stage' = "rotate"
    <3>1. Pictured'
      BY <1>3, <2>2, <2>4, <2>5, <2>6, <2>8 DEF Pictured
    <3>. QED  BY <2>3, <2>5, <2>8, <3>1, GoesOn DEF ImageStages
  <2>9. CASE stage' # "rotate"
    BY <2>3, <2>7, <2>9, TransformEnds
  <2>. QED  BY <2>8, <2>9
<1>. QED  BY <1>4, <1>5

-----------------------------------------------------------------------------
(* The theorems *)

LEMMA TransformStarts ==
  ASSUME TransformInit
  PROVE  TransformInv
<1>1. req \in Requests /\ stage = "accept" /\ grown = 0 /\ MaxOutput \in Nat
  BY LimitsAssumption DEF TransformInit, RasterInit
<1>2. ShownAsMeant
  BY <1>1 DEF ShownAsMeant, Succeeded, Done
<1>. QED  BY <1>1, <1>2 DEF TransformInv, RasterStages, DrawingStages, ImageStages

LEMMA TransformSteps ==
  ASSUME TransformInv, [TransformNext]_svgVars
  PROVE  TransformInv'
<1>1. CASE PixelStages
  BY <1>1, RotateKeeps, CropKeeps, ResizeKeeps, FilterKeeps, WatermarkKeeps DEF PixelStages
<1>2. CASE ReadEvent
  BY <1>2, RasterStutters DEF ReadEvent
<1>3. CASE UNCHANGED svgVars
  BY <1>3, RasterStutters DEF svgVars
<1>4. CASE RasterNext
  BY <1>1, <1>4, AcceptKeeps, LosslessKeeps, MetadataKeeps, DecodeKeeps, EncodersKeep, FinishKeeps
     DEF RasterNext
<1>5. CASE SvgNext
  BY <1>2, <1>5, AcceptSvgKeeps, SanitizeKeeps, HandBackKeeps, DrawKeeps, EncodeDrawingKeeps DEF SvgNext
<1>. QED  BY <1>3, <1>4, <1>5 DEF TransformNext

LEMMA TransformAlways == TransformSpec => []TransformInv
BY TransformStarts, TransformSteps, PTL DEF TransformSpec

\* Whatever the orientation tag, the turn asked for, the metadata policy and the
\* optimization, a viewer shows the output the way it shows the input, turned as
\* asked, or the caller is told that the tag did not survive; only an encode that
\* retains a tag which cannot be reset is turned twice.
THEOREM OutputIsShownAsMeant == TransformSpec => []ShownAsMeant
<1>1. TransformInv => ShownAsMeant
  BY DEF TransformInv
<1>. QED  BY <1>1, TransformAlways, PTL

\* Whatever the sizes, the fit, the crop and the angle, no stage of a transform
\* allocates a buffer of more pixels than the output limit.
THEOREM BuffersAreBounded == TransformSpec => []BuffersBounded
<1>1. TransformInv => BuffersBounded
  BY DEF TransformInv, BuffersBounded
<1>. QED  BY <1>1, TransformAlways, PTL

\* Whatever the sizes, positions and margins, a contained image lies inside its
\* box and a watermark inside the image it is put on.
THEOREM ContentIsPlacedInside == TransformSpec => []PlacedInside
<1>. DEFINE box == <<opt.width, opt.height>>
            inner == ContentSize(image.size, opt.width, opt.height, "contain", opt.withoutEnlargement)
            wm == opt.watermark[1]
<1>1. ASSUME TransformInv, stage = "resize", opt.fit = "contain"
      PROVE  LET place == PositionOffset(box, inner, opt.position)
             IN place[1] + inner[1] <= box[1] /\ place[2] + inner[2] <= box[2]
  <2>1. image.size \in Sizes /\ SoundOptions(opt)
    BY <1>1, ImageFacts DEF ImageStages
  <2>2. opt.width \in Axes /\ opt.height \in Axes /\ opt.width # None /\ opt.height # None
    BY <1>1, <2>1 DEF SoundOptions
  <2>3. box \in Sizes
    BY <2>2 DEF Axes, Sizes
  <2>4. inner = FitContent(image.size, box, "contain", opt.withoutEnlargement)
    BY <2>2 DEF ContentSize
  <2>. HIDE DEF box, inner
  <2>5. inner \in Sizes /\ inner[1] <= box[1] /\ inner[2] <= box[2]
    BY <2>1, <2>3, <2>4, FitPositive, ContainFits
  <2>. QED  BY <2>3, <2>5, PositionInside
<1>2. ASSUME TransformInv, stage = "encode", opt.watermark # <<>>
      PROVE  LET place == WatermarkOffset(image.size, wm.image.size, wm.position, wm.margin)
             IN /\ place[1] + wm.image.size[1] <= image.size[1]
                /\ place[2] + wm.image.size[2] <= image.size[2]
  <2>1. image.size \in Sizes /\ SoundOptions(opt)
    BY <1>2, ImageFacts DEF ImageStages
  <2>2. wm.image.size \in Nat \X Nat /\ wm.margin \in Nat
    BY <1>2, <2>1 DEF SoundOptions
  <2>3. WatermarkFits(wm.image.size, image.size, wm.position, wm.margin)
    BY <1>2 DEF TransformInv
  <2>. HIDE DEF wm
  <2>. QED  BY <2>1, <2>2, <2>3, WatermarkInside
<1>3. TransformInv => PlacedInside
  BY <1>1, <1>2 DEF PlacedInside
<1>. QED  BY <1>3, TransformAlways, PTL

-----------------------------------------------------------------------------
(*                      Part 3: sanitized documents                        *)
(*                                                                         *)
(* A second pass over what has been written so far stands where the first  *)
(* one does, outside of anything that is dropped (Mirrors): the theorem    *)
(* follows by induction over the event loop.  It rests on three facts      *)
(* about what is written: a cleaned style sheet has nothing left to clean  *)
(* (Fixed), an attribute that is kept is kept again (GoodAttribute), and   *)
(* neither fetches anything (FixedIsInert, UnmentionedIsInert).            *)

-----------------------------------------------------------------------------
(* Induction over numbers and sequences, and folds *)

LEMMA NatSet ==
  ASSUME NEW X, 0 \in X, \A n \in Nat : n \in X => n + 1 \in X
  PROVE  Nat \subseteq X
<1>. DEFINE T == {n \in Nat : n \notin X}
<1>. SUFFICES ASSUME T # {} PROVE FALSE
  OBVIOUS
<1>1. PICK n \in T : \A m \in T : <<m, n>> \notin OpToRel(<, Nat)
  <2>1. IsWellFoundedOn(OpToRel(<, Nat), Nat)
    BY NatLessThanWellFounded
  <2>2. T \in SUBSET Nat
    OBVIOUS
  <2>. HIDE DEF T
  <2>. QED  BY <2>1, <2>2, WFMin
<1>2. n \in Nat /\ n # 0
  BY <1>1
<1>3. n - 1 \in Nat /\ n - 1 < n /\ n = (n - 1) + 1
  BY <1>2
<1>4. n - 1 \notin T
  BY <1>1, <1>3 DEF OpToRel
<1>. QED  BY <1>1, <1>3, <1>4

\* What holds of the empty sequence, and of a longer one when of a shorter, holds
\* of every sequence.
LEMMA SeqSet ==
  ASSUME NEW S, NEW X, <<>> \in X,
         \A s \in Seq(S), e \in S : s \in X => Append(s, e) \in X
  PROVE  Seq(S) \subseteq X
<1>. DEFINE N == {n \in Nat : \A s \in Seq(S) : Len(s) = n => s \in X}
<1>1. 0 \in N
  <2>1. \A s \in Seq(S) : Len(s) = 0 => s = <<>>
    BY EmptySeq
  <2>. QED  BY <2>1
<1>2. ASSUME NEW n \in Nat, n \in N PROVE n + 1 \in N
  <2>. SUFFICES ASSUME NEW s \in Seq(S), Len(s) = n + 1 PROVE s \in X
    OBVIOUS
  <2>1. s # <<>>
    BY EmptySeq
  <2>2. PICK t \in Seq(S), e \in S : s = Append(t, e)
    BY <2>1, SequenceEmptyOrAppend
  <2>3. Len(t) = n
    <3>1. Len(s) = Len(t) + 1 /\ Len(t) \in Nat
      BY <2>2, AppendProperties, LenProperties
    <3>. QED  BY <3>1
  <2>. QED  BY <1>2, <2>2, <2>3
<1>. HIDE DEF N
<1>3. Nat \subseteq N
  BY <1>1, <1>2, NatSet
<1>4. ASSUME NEW s \in Seq(S) PROVE s \in X
  <2>1. Len(s) \in N
    BY <1>3, LenProperties
  <2>. QED  BY <2>1 DEF N
<1>. QED  BY <1>4

-----------------------------------------------------------------------------

\* The steps of the four scans, told apart by a tag so that one proof serves them.
StepOf(k, acc, x) ==
  IF k[1] = "lex" THEN LexStep(acc, x)
  ELSE IF k[1] = "css" THEN CssStep(acc, x)
  ELSE IF k[1] = "event" THEN SanitizeEvent(acc, x)
  ELSE acc \o SanitizedAttribute(x, k[2])

IsRun(k, start, s, f) == f[0] = start /\ \A i \in 1..Len(s) : f[i] = StepOf(k, f[i - 1], s[i])

Fold(k, start, s) == (CHOOSE f : IsRun(k, start, s, f))[Len(s)]

LEMMA RunLonger ==
  ASSUME NEW k, NEW start, NEW S, NEW s \in Seq(S), NEW x \in S, NEW f, IsRun(k, start, s, f)
  PROVE  \E g : IsRun(k, start, Append(s, x), g)
<1>. DEFINE n == Len(s) + 1
            final == StepOf(k, f[Len(s)], x)
            g == [i \in 0..n |-> IF i = n THEN final ELSE f[i]]
<1>1. /\ Len(s) \in Nat /\ n \in Nat /\ Len(Append(s, x)) = n
      /\ Append(s, x)[n] = x /\ \A i \in 1..Len(s) : Append(s, x)[i] = s[i]
  BY LenProperties, AppendProperties
<1>2. f[0] = start /\ \A i \in 1..Len(s) : f[i] = StepOf(k, f[i - 1], s[i])
  BY DEF IsRun
<1>3. g[n] = final /\ (\A i \in 0..Len(s) : g[i] = f[i]) /\ g[0] = start
  BY <1>1, <1>2
<1>. HIDE DEF g
<1>4. ASSUME NEW i \in 1..n PROVE g[i] = StepOf(k, g[i - 1], Append(s, x)[i])
  <2>1. CASE i = n
    <3>1. i - 1 = Len(s) /\ i - 1 \in 0..Len(s)
      BY <1>1, <2>1
    <3>2. g[i - 1] = f[Len(s)]
      BY ONLY <1>3, <3>1
    <3>. QED  BY ONLY <1>1, <1>3, <2>1, <3>2 DEF final
  <2>2. CASE i # n
    <3>1. i \in 1..Len(s) /\ i \in 0..Len(s) /\ i - 1 \in 0..Len(s)
      BY <1>1, <2>2
    <3>2. g[i - 1] = f[i - 1] /\ g[i] = f[i] /\ Append(s, x)[i] = s[i]
      BY ONLY <1>1, <1>3, <3>1
    <3>3. f[i] = StepOf(k, f[i - 1], s[i])
      BY ONLY <1>2, <3>1
    <3>. QED  BY ONLY <3>2, <3>3
  <2>. QED  BY <2>1, <2>2
<1>5. IsRun(k, start, Append(s, x), g)
  BY ONLY <1>1, <1>3, <1>4 DEF IsRun, n
<1>. QED  BY ONLY <1>5

LEMMA RunExists ==
  ASSUME NEW k, NEW start, NEW S, NEW s \in Seq(S)
  PROVE  \E f : IsRun(k, start, s, f)
<1>. DEFINE X == {t \in Seq(S) : \E f : IsRun(k, start, t, f)}
<1>1. <<>> \in X
  <2>1. IsRun(k, start, <<>>, [i \in 0..0 |-> start])
    BY DEF IsRun
  <2>. QED  BY <2>1
<1>2. ASSUME NEW t \in Seq(S), NEW e \in S, t \in X PROVE Append(t, e) \in X
  <2>1. PICK f : IsRun(k, start, t, f)
    BY <1>2
  <2>2. Append(t, e) \in Seq(S)
    BY AppendProperties
  <2>. QED  BY <2>1, <2>2, RunLonger
<1>. HIDE DEF X
<1>3. Seq(S) \subseteq X
  BY <1>1, <1>2, SeqSet
<1>. QED  BY <1>3 DEF X

LEMMA RunsAgree ==
  ASSUME NEW k, NEW start, NEW S, NEW s \in Seq(S), NEW f, NEW g,
         IsRun(k, start, s, f), IsRun(k, start, s, g), NEW i \in 0..Len(s)
  PROVE  f[i] = g[i]
<1>. DEFINE X == {n \in Nat : n \in 0..Len(s) => f[n] = g[n]}
<1>1. 0 \in X
  BY DEF IsRun
<1>2. ASSUME NEW n \in Nat, n \in X PROVE n + 1 \in X
  <2>. SUFFICES ASSUME n + 1 \in 0..Len(s) PROVE f[n + 1] = g[n + 1]
    OBVIOUS
  <2>1. Len(s) \in Nat
    BY LenProperties
  <2>2. n \in 0..Len(s) /\ n + 1 \in 1..Len(s) /\ (n + 1) - 1 = n
    BY <2>1
  <2>3. f[n] = g[n]
    BY <1>2, <2>2
  <2>4. f[n + 1] = StepOf(k, f[n], s[n + 1]) /\ g[n + 1] = StepOf(k, g[n], s[n + 1])
    BY <2>2 DEF IsRun
  <2>. QED  BY <2>3, <2>4
<1>. HIDE DEF X
<1>3. Nat \subseteq X
  BY <1>1, <1>2, NatSet
<1>4. i \in Nat
  BY LenProperties
<1>. QED  BY <1>3, <1>4 DEF X

\* A scan ends where any of its runs does.
LEMMA FoldIs ==
  ASSUME NEW k, NEW start, NEW S, NEW s \in Seq(S), NEW f, IsRun(k, start, s, f)
  PROVE  Fold(k, start, s) = f[Len(s)]
<1>. DEFINE w == CHOOSE g : IsRun(k, start, s, g)
<1>1. IsRun(k, start, s, w)
  OBVIOUS
<1>. HIDE DEF w
<1>2. Len(s) \in 0..Len(s)
  BY LenProperties
<1>3. w[Len(s)] = f[Len(s)]
  BY <1>1, <1>2, RunsAgree
<1>. QED  BY <1>3 DEF Fold, w

LEMMA FoldEmpty == ASSUME NEW k, NEW start PROVE Fold(k, start, <<>>) = start
<1>. DEFINE f == [i \in 0..0 |-> start]
<1>1. IsRun(k, start, <<>>, f)
  BY DEF IsRun
<1>2. f[0] = start /\ Len(<<>>) = 0 /\ <<>> \in Seq({})
  OBVIOUS
<1>. HIDE DEF f
<1>3. Fold(k, start, <<>>) = f[Len(<<>>)]
  BY <1>1, <1>2, FoldIs
<1>. QED  BY <1>2, <1>3

LEMMA FoldNext ==
  ASSUME NEW k, NEW start, NEW S, NEW s \in Seq(S), NEW x \in S
  PROVE  Fold(k, start, Append(s, x)) = StepOf(k, Fold(k, start, s), x)
<1>. DEFINE t == Append(s, x)
<1>1. /\ Len(s) \in Nat /\ t \in Seq(S) /\ Len(t) = Len(s) + 1
      /\ t[Len(s) + 1] = x /\ \A i \in 1..Len(s) : t[i] = s[i]
  BY LenProperties, AppendProperties
<1>. HIDE DEF t
<1>2. PICK f : IsRun(k, start, t, f)
  BY <1>1, RunExists
<1>3. f[0] = start /\ \A i \in 1..Len(t) : f[i] = StepOf(k, f[i - 1], t[i])
  BY <1>2 DEF IsRun
<1>4. IsRun(k, start, s, f)
  <2>1. ASSUME NEW i \in 1..Len(s) PROVE f[i] = StepOf(k, f[i - 1], s[i])
    <3>1. i \in 1..Len(t) /\ t[i] = s[i]
      BY <1>1
    <3>. QED  BY ONLY <1>3, <3>1
  <2>. QED  BY ONLY <1>3, <2>1 DEF IsRun
<1>5. Fold(k, start, t) = f[Len(t)] /\ Fold(k, start, s) = f[Len(s)]
  BY <1>1, <1>2, <1>4, FoldIs
<1>6. Len(t) \in 1..Len(t) /\ Len(t) - 1 = Len(s)
  BY <1>1
<1>7. f[Len(t)] = StepOf(k, f[Len(t) - 1], t[Len(t)])
  BY ONLY <1>3, <1>6
<1>8. t[Len(t)] = x
  BY ONLY <1>1
<1>9. f[Len(t)] = StepOf(k, f[Len(s)], x)
  BY ONLY <1>6, <1>7, <1>8
<1>. QED  BY ONLY <1>5, <1>9 DEF t

\* The recursive function a scan is defined by, and what it computes.
Unrolled(k, start, s, f) ==
  [i \in 0..Len(s) |-> IF i = 0 THEN start ELSE StepOf(k, f[i - 1], s[i])]

LEMMA UnrolledExists ==
  ASSUME NEW k, NEW start, NEW S, NEW s \in Seq(S)
  PROVE  \E g : g = Unrolled(k, start, s, g)
<1>1. PICK f : IsRun(k, start, s, f)
  BY RunExists
<1>. DEFINE g == [i \in 0..Len(s) |-> f[i]]
<1>2. ASSUME NEW i \in 0..Len(s)
      PROVE  f[i] = IF i = 0 THEN start ELSE StepOf(k, g[i - 1], s[i])
  <2>1. CASE i = 0
    BY <1>1, <2>1 DEF IsRun
  <2>2. CASE i # 0
    <3>1. i \in 1..Len(s) /\ i - 1 \in 0..Len(s)
      BY <2>2, LenProperties
    <3>2. f[i] = StepOf(k, f[i - 1], s[i])
      BY <1>1, <3>1 DEF IsRun
    <3>3. g[i - 1] = f[i - 1]
      BY <3>1
    <3>. QED  BY ONLY <2>2, <3>2, <3>3
  <2>. QED  BY <2>1, <2>2
<1>3. g = Unrolled(k, start, s, g)
  BY ONLY <1>2 DEF Unrolled
<1>. QED  BY ONLY <1>3

LEMMA UnrolledFolds ==
  ASSUME NEW k, NEW start, NEW S, NEW s \in Seq(S), NEW w, w = Unrolled(k, start, s, w)
  PROVE  w[Len(s)] = Fold(k, start, s)
<1>1. Len(s) \in Nat
  BY LenProperties
<1>2. \A i \in 0..Len(s) : w[i] = IF i = 0 THEN start ELSE StepOf(k, w[i - 1], s[i])
  <2>1. \A i \in 0..Len(s) : Unrolled(k, start, s, w)[i] = IF i = 0 THEN start ELSE StepOf(k, w[i - 1], s[i])
    BY ONLY DEF Unrolled
  <2>. QED  BY ONLY <2>1, w = Unrolled(k, start, s, w)
<1>3. w[0] = start /\ \A i \in 1..Len(s) : w[i] = StepOf(k, w[i - 1], s[i])
  <2>1. 0 \in 0..Len(s) /\ \A i \in 1..Len(s) : i \in 0..Len(s) /\ i # 0
    BY <1>1
  <2>. QED  BY ONLY <1>2, <2>1
<1>4. IsRun(k, start, s, w)
  BY ONLY <1>3 DEF IsRun
<1>. QED  BY <1>4, FoldIs

LEMMA LexFolds ==
  ASSUME NEW S, NEW s \in Seq(S)
  PROVE  Lex(s) = Fold(<<"lex">>, <<>>, s)
<1>. DEFINE F(f) == [i \in 0..Len(s) |->
                       IF i = 0 THEN <<>> ELSE Once(LAMBDA acc : LexStep(acc, s[i]), f[i - 1])]
            w == CHOOSE f : f = F(f)
<1>1. Lex(s) = w[Len(s)]
  BY DEF Lex, Scan, Once
<1>2. ASSUME NEW f PROVE F(f) = Unrolled(<<"lex">>, <<>>, s, f)
  BY DEF Once, StepOf, Unrolled
<1>. HIDE DEF F
<1>3. w = F(w)
  BY <1>2, UnrolledExists
<1>. HIDE DEF w
<1>. QED  BY <1>1, <1>2, <1>3, UnrolledFolds

CssStart == [out |-> <<>>, parens |-> <<>>, rule |-> -1]

LEMMA CssFolds ==
  ASSUME NEW S, NEW s \in Seq(S)
  PROVE  Scan(CssStep, CssStart, s) = Fold(<<"css">>, CssStart, s)
<1>. DEFINE F(f) == [i \in 0..Len(s) |->
                       IF i = 0 THEN CssStart ELSE Once(LAMBDA acc : CssStep(acc, s[i]), f[i - 1])]
            w == CHOOSE f : f = F(f)
<1>1. Scan(CssStep, CssStart, s) = w[Len(s)]
  BY DEF CssStart, Scan, Once
<1>2. ASSUME NEW f PROVE F(f) = Unrolled(<<"css">>, CssStart, s, f)
  BY DEF Once, StepOf, Unrolled
<1>. HIDE DEF F
<1>3. w = F(w)
  BY <1>2, UnrolledExists
<1>. HIDE DEF w
<1>. QED  BY <1>1, <1>2, <1>3, UnrolledFolds

LEMMA EventsFold ==
  ASSUME NEW S, NEW s \in Seq(S)
  PROVE  Scan(SanitizeEvent, SanitizeStart, s) = Fold(<<"event">>, SanitizeStart, s)
<1>. DEFINE F(f) == [i \in 0..Len(s) |->
                       IF i = 0 THEN SanitizeStart ELSE Once(LAMBDA acc : SanitizeEvent(acc, s[i]), f[i - 1])]
            w == CHOOSE f : f = F(f)
<1>1. Scan(SanitizeEvent, SanitizeStart, s) = w[Len(s)]
  BY DEF SanitizeStart, Scan, Once
<1>2. ASSUME NEW f PROVE F(f) = Unrolled(<<"event">>, SanitizeStart, s, f)
  BY DEF Once, StepOf, Unrolled
<1>. HIDE DEF F
<1>3. w = F(w)
  BY <1>2, UnrolledExists
<1>. HIDE DEF w
<1>. QED  BY <1>1, <1>2, <1>3, UnrolledFolds

LEMMA AttributesFold ==
  ASSUME NEW entities, NEW S, NEW s \in Seq(S)
  PROVE  SanitizeAttributes(s, entities) = Fold(<<"attrs", entities>>, <<>>, s)
<1>. DEFINE F(f) == [i \in 0..Len(s) |->
                       IF i = 0 THEN <<>> ELSE Once(LAMBDA acc : acc \o SanitizedAttribute(s[i], entities), f[i - 1])]
            w == CHOOSE f : f = F(f)
<1>1. SanitizeAttributes(s, entities) = w[Len(s)]
  BY DEF SanitizeAttributes, Scan, Once
<1>2. ASSUME NEW f PROVE F(f) = Unrolled(<<"attrs", entities>>, <<>>, s, f)
  BY DEF Once, StepOf, Unrolled
<1>. HIDE DEF F
<1>3. w = F(w)
  BY <1>2, UnrolledExists
<1>. HIDE DEF w
<1>. QED  BY <1>1, <1>2, <1>3, UnrolledFolds

LEMMA LexNext ==
  /\ Lex(<<>>) = <<>>
  /\ \A S : \A s \in Seq(S), x \in S : Lex(Append(s, x)) = LexStep(Lex(s), x)
<1>1. Lex(<<>>) = <<>>
  <2>1. <<>> \in Seq({})
    OBVIOUS
  <2>. QED  BY <2>1, LexFolds, FoldEmpty
<1>2. ASSUME NEW S, NEW s \in Seq(S), NEW x \in S PROVE Lex(Append(s, x)) = LexStep(Lex(s), x)
  <2>1. Append(s, x) \in Seq(S)
    BY AppendProperties
  <2>2. Lex(s) = Fold(<<"lex">>, <<>>, s) /\ Lex(Append(s, x)) = Fold(<<"lex">>, <<>>, Append(s, x))
    BY <2>1, LexFolds
  <2>. QED  BY <2>2, FoldNext DEF StepOf
<1>. QED  BY <1>1, <1>2

Css(s) == Scan(CssStep, CssStart, s)

LEMMA CssNext ==
  /\ Css(<<>>) = CssStart
  /\ \A S : \A s \in Seq(S), x \in S : Css(Append(s, x)) = CssStep(Css(s), x)
<1>1. Css(<<>>) = CssStart
  <2>1. <<>> \in Seq({})
    OBVIOUS
  <2>. QED  BY <2>1, CssFolds, FoldEmpty DEF Css
<1>2. ASSUME NEW S, NEW s \in Seq(S), NEW x \in S PROVE Css(Append(s, x)) = CssStep(Css(s), x)
  <2>1. Append(s, x) \in Seq(S)
    BY AppendProperties
  <2>2. Css(s) = Fold(<<"css">>, CssStart, s) /\ Css(Append(s, x)) = Fold(<<"css">>, CssStart, Append(s, x))
    BY <2>1, CssFolds DEF Css
  <2>. QED  BY <2>2, FoldNext DEF StepOf
<1>. QED  BY <1>1, <1>2

Scanned(s) == Scan(SanitizeEvent, SanitizeStart, s)

LEMMA EventsNext ==
  /\ Scanned(<<>>) = SanitizeStart
  /\ \A S : \A s \in Seq(S), x \in S : Scanned(Append(s, x)) = SanitizeEvent(Scanned(s), x)
<1>1. Scanned(<<>>) = SanitizeStart
  <2>1. <<>> \in Seq({})
    OBVIOUS
  <2>. QED  BY <2>1, EventsFold, FoldEmpty DEF Scanned
<1>2. ASSUME NEW S, NEW s \in Seq(S), NEW x \in S
      PROVE  Scanned(Append(s, x)) = SanitizeEvent(Scanned(s), x)
  <2>1. Append(s, x) \in Seq(S)
    BY AppendProperties
  <2>2. /\ Scanned(s) = Fold(<<"event">>, SanitizeStart, s)
        /\ Scanned(Append(s, x)) = Fold(<<"event">>, SanitizeStart, Append(s, x))
    BY <2>1, EventsFold DEF Scanned
  <2>. QED  BY <2>2, FoldNext DEF StepOf
<1>. QED  BY <1>1, <1>2

LEMMA AttributesNext ==
  ASSUME NEW entities
  PROVE  /\ SanitizeAttributes(<<>>, entities) = <<>>
         /\ \A S : \A s \in Seq(S), x \in S :
              SanitizeAttributes(Append(s, x), entities)
                = SanitizeAttributes(s, entities) \o SanitizedAttribute(x, entities)
<1>. DEFINE k == <<"attrs", entities>>
<1>1. SanitizeAttributes(<<>>, entities) = <<>>
  <2>1. <<>> \in Seq({})
    OBVIOUS
  <2>2. SanitizeAttributes(<<>>, entities) = Fold(k, <<>>, <<>>)
    BY <2>1, AttributesFold
  <2>. HIDE DEF k
  <2>. QED  BY <2>2, FoldEmpty
<1>2. ASSUME NEW S, NEW s \in Seq(S), NEW x \in S
      PROVE  SanitizeAttributes(Append(s, x), entities)
               = SanitizeAttributes(s, entities) \o SanitizedAttribute(x, entities)
  <2>1. Append(s, x) \in Seq(S)
    BY AppendProperties
  <2>2. /\ SanitizeAttributes(s, entities) = Fold(k, <<>>, s)
        /\ SanitizeAttributes(Append(s, x), entities) = Fold(k, <<>>, Append(s, x))
    BY <2>1, AttributesFold
  <2>3. \A acc : StepOf(k, acc, x) = acc \o SanitizedAttribute(x, entities)
    BY DEF StepOf
  <2>. HIDE DEF k
  <2>4. Fold(k, <<>>, Append(s, x)) = StepOf(k, Fold(k, <<>>, s), x)
    BY FoldNext
  <2>. QED  BY <2>2, <2>3, <2>4
<1>. QED  BY <1>1, <1>2

-----------------------------------------------------------------------------
(* Stylesheets *)

\* No "ur" is followed by what would join it.
Apart(s, K) == \A i \in 1..Len(s) : s[i].p = "ur" /\ i + 1 \in 1..Len(s) => s[i + 1].p \notin K

EndsIn(s, p) == s # <<>> /\ s[Len(s)].p = p

LEMMA ApartNext ==
  ASSUME NEW S, NEW s \in Seq(S), NEW x \in S, NEW K
  PROVE  Apart(Append(s, x), K) <=> Apart(s, K) /\ ~(EndsIn(s, "ur") /\ x.p \in K)
<1>. DEFINE n == Len(s)
            t == Append(s, x)
<1>1. /\ n \in Nat /\ Len(t) = n + 1 /\ t[n + 1] = x /\ \A i \in 1..n : t[i] = s[i]
      /\ s # <<>> <=> n # 0
  BY LenProperties, AppendProperties, EmptySeq
<1>. HIDE DEF t, n
<1>2. ASSUME Apart(t, K) PROVE Apart(s, K) /\ ~(EndsIn(s, "ur") /\ x.p \in K)
  <2>1. \A i \in 1..(n + 1) : t[i].p = "ur" /\ i + 1 \in 1..(n + 1) => t[i + 1].p \notin K
    BY <1>1, <1>2 DEF Apart
  <2>2. \A i \in 1..n : s[i].p = "ur" /\ i + 1 \in 1..n => s[i + 1].p \notin K
    BY ONLY <1>1, <2>1
  <2>3. n # 0 /\ s[n].p = "ur" => x.p \notin K
    BY ONLY <1>1, <2>1
  <2>. QED  BY ONLY <1>1, <2>2, <2>3 DEF Apart, EndsIn, n
<1>3. ASSUME Apart(s, K), ~(EndsIn(s, "ur") /\ x.p \in K) PROVE Apart(t, K)
  <2>1. \A i \in 1..n : s[i].p = "ur" /\ i + 1 \in 1..n => s[i + 1].p \notin K
    BY <1>3 DEF Apart, n
  <2>2. n # 0 /\ s[n].p = "ur" => x.p \notin K
    BY <1>1, <1>3 DEF EndsIn, n
  <2>3. ASSUME NEW i \in 1..(n + 1), t[i].p = "ur", i + 1 \in 1..(n + 1) PROVE t[i + 1].p \notin K
    BY ONLY <1>1, <2>1, <2>2, <2>3
  <2>. QED  BY ONLY <1>1, <2>3 DEF Apart
<1>. QED  BY <1>2, <1>3 DEF t

\* A piece without a text of its own.
LEMMA PieceIs ==
  ASSUME NEW kind \in PieceKinds, NEW of \in Resources
  PROVE  /\ Piece(kind, of, FALSE) \in Pieces /\ Piece(kind, of, FALSE).p = kind
         /\ Piece(kind, of, FALSE).of = of /\ Piece(kind, of, FALSE).spells = FALSE
<1>. DEFINE r == [p |-> kind, of |-> of, spells |-> FALSE]
<1>1. r.p = kind /\ r.of = of /\ r.spells = FALSE
  OBVIOUS
<1>2. r \in [p : PieceKinds, of : Resources, spells : BOOLEAN]
  BY Zenon
<1>. HIDE DEF r
<1>3. r \in Pieces
  BY <1>1, <1>2 DEF Pieces
<1>4. Piece(kind, of, FALSE) = r
  BY DEF Piece, r
<1>. QED  BY <1>1, <1>3, <1>4

\* What a tokenizer makes of a text: no pieces of a name touch any more, and a
\* word that comes first stays the first token.
LEMMA LexFacts ==
  ASSUME NEW s \in Seq(Pieces)
  PROVE  /\ Lex(s) \in Seq(Pieces) /\ Apart(Lex(s), {"l("})
         /\ Lex(s) = <<>> <=> s = <<>>
         /\ Lex(s) # <<>> => Lex(s)[1] = s[1] \/ s[1].p # "word"
<1>. DEFINE First(t, css) == /\ css = <<>> <=> t = <<>>
                             /\ css # <<>> => css[1] = t[1] \/ t[1].p # "word"
            Good(t, css) == css \in Seq(Pieces) /\ Apart(css, {"l("}) /\ First(t, css)
            X == {t \in Seq(Pieces) : Good(t, Lex(t))}
<1>1. <<>> \in X
  <2>1. Lex(<<>>) = <<>>
    BY LexNext
  <2>2. Apart(<<>>, {"l("}) /\ <<>> \in Seq(Pieces)
    BY DEF Apart
  <2>. HIDE DEF Good
  <2>3. Good(<<>>, <<>>)
    BY <2>2 DEF Good
  <2>. QED  BY <2>1, <2>2, <2>3
<1>2. ASSUME NEW t \in Seq(Pieces), NEW x \in Pieces, t \in X PROVE Append(t, x) \in X
  <2>. DEFINE css == Lex(t)
  <2>1. Good(t, css) /\ Lex(Append(t, x)) = LexStep(css, x)
    BY <1>2, LexNext
  <2>. HIDE DEF css
  <2>2. /\ Append(t, x) \in Seq(Pieces) /\ Append(t, x) # <<>>
        /\ Append(t, x)[1] = IF t = <<>> THEN x ELSE t[1]
    <3>1. Append(t, x) \in Seq(Pieces) /\ Append(t, x) # <<>>
      BY AppendProperties
    <3>. QED  BY <3>1
  <2>3. CASE EndsIn(css, "ur") /\ x.p \in {"l(", "decoy"}
    <3>. DEFINE y == IF x.p = "l(" THEN Piece("url", x.of, FALSE) ELSE x
    <3>1. LexStep(css, x) = Append(Front(css), y)
      BY <2>3 DEF LexStep, EndsIn, Last
    <3>2. y \in Pieces /\ y.p \in {"url", "decoy"}
      <4>1. x \in [p : PieceKinds, of : Resources, spells : BOOLEAN]
        BY DEF Pieces
      <4>2. x.p = "l(" => Piece("url", x.of, FALSE) \in Pieces
        <5>1. x.of \in Resources
          BY <4>1
        <5>2. "url" \in PieceKinds
          BY DEF PieceKinds
        <5>. QED  BY <5>1, <5>2, PieceIs
      <4>. QED  BY <2>3, <4>2 DEF Piece
    <3>. HIDE DEF y
    <3>3. PICK c \in Seq(Pieces), z \in Pieces : css = Append(c, z)
      BY <2>1, <2>3, SequenceEmptyOrAppend DEF EndsIn
    <3>4. Front(css) = c
      BY <3>3 DEF Front
    <3>5. Apart(c, {"l("})
      BY <2>1, <3>3, ApartNext
    <3>6. Append(c, y) \in Seq(Pieces) /\ Apart(Append(c, y), {"l("})
      BY <3>2, <3>5, ApartNext, AppendProperties
    <3>7. First(Append(t, x), Append(c, y))
      <4>1. CASE c = <<>>
        <5>1. css # <<>> /\ css[1].p = "ur" /\ Append(c, y) # <<>>
          BY <2>3, <3>3, <4>1 DEF EndsIn
        <5>2. t # <<>> /\ t[1].p # "word"
          BY <2>1, <5>1
        <5>. QED  BY <2>2, <5>1, <5>2
      <4>2. CASE c # <<>>
        <5>1. Append(c, y)[1] = c[1] /\ css[1] = c[1] /\ css # <<>>
          BY <3>3, <4>2
        <5>2. Append(c, y) # <<>>
          BY <3>2, AppendProperties
        <5>3. Append(t, x) # <<>> /\ t # <<>> /\ (css[1] = t[1] \/ t[1].p # "word")
          BY ONLY <2>1, <2>2, <5>1
        <5>. QED  BY ONLY <2>2, <5>1, <5>2, <5>3
      <4>. QED  BY <4>1, <4>2
    <3>. QED  BY <2>1, <2>2, <3>1, <3>4, <3>6, <3>7
  <2>4. CASE ~(EndsIn(css, "ur") /\ x.p \in {"l(", "decoy"})
    <3>1. LexStep(css, x) = Append(css, x)
      BY <2>4 DEF LexStep, EndsIn, Last
    <3>2. Append(css, x) \in Seq(Pieces) /\ Apart(Append(css, x), {"l("})
      BY <2>1, <2>4, ApartNext, AppendProperties
    <3>3. First(Append(t, x), Append(css, x))
      <4>1. CASE css = <<>>
        <5>1. Append(css, x)[1] = x
          BY <4>1
        <5>2. t = <<>> /\ Append(css, x) # <<>>
          BY <2>1, <4>1
        <5>. QED  BY <2>2, <5>1, <5>2
      <4>2. CASE css # <<>>
        <5>1. Append(css, x)[1] = css[1] /\ Append(css, x) # <<>>
          BY <2>1, <4>2
        <5>2. t # <<>> /\ (css[1] = t[1] \/ t[1].p # "word")
          BY ONLY <2>1, <4>2
        <5>. QED  BY ONLY <2>2, <5>1, <5>2
      <4>. QED  BY <4>1, <4>2
    <3>. QED  BY <2>1, <2>2, <3>1, <3>2, <3>3
  <2>. QED  BY <2>3, <2>4
<1>. HIDE DEF X
<1>3. Seq(Pieces) \subseteq X
  BY <1>1, <1>2, SeqSet
<1>. QED  BY <1>3 DEF X

\* A text whose names do not touch is its own tokens.
LEMMA LexKeeps ==
  ASSUME NEW s \in Seq(Pieces), Apart(s, {"l(", "decoy"})
  PROVE  Lex(s) = s
<1>. DEFINE K == {"l(", "decoy"}
            X == {t \in Seq(Pieces) : Apart(t, K) => Lex(t) = t}
<1>1. <<>> \in X
  BY LexNext
<1>2. ASSUME NEW t \in Seq(Pieces), NEW x \in Pieces, t \in X PROVE Append(t, x) \in X
  <2>1. Append(t, x) \in Seq(Pieces)
    BY AppendProperties
  <2>. SUFFICES ASSUME Apart(Append(t, x), K) PROVE Lex(Append(t, x)) = Append(t, x)
    BY <2>1
  <2>2. Apart(t, K) /\ ~(EndsIn(t, "ur") /\ x.p \in K)
    BY ApartNext
  <2>3. Lex(Append(t, x)) = LexStep(t, x)
    BY <1>2, <2>2, LexNext
  <2>. QED  BY <2>2, <2>3 DEF LexStep, EndsIn, Last
<1>. HIDE DEF X
<1>3. Seq(Pieces) \subseteq X
  BY <1>1, <1>2, SeqSet
<1>. QED  BY <1>3 DEF X

\* What is left of a stylesheet: nothing that is fetched, wherever it stands.
SafePiece(y) ==
  /\ y.p \notin {"xurl(", "decoy"} /\ ~y.spells
  /\ y.p = "url" => ~IsDangerous(y.of)
  /\ y.p = "at" => y.of = "allowed"

SafeIn(y, parens) == y.p = "string" /\ TRUE \in Range(parens) => ~IsDangerous(y.of)

Upto(t, i) == Css(SubSeq(t, 1, i - 1))

State(t, parens) == [out |-> t, parens |-> parens, rule |-> -1]

\* How a state of the pass moves.
LEMMA StateMoves ==
  ASSUME NEW t, NEW parens, NEW v
  PROVE  /\ State(t, parens).out = t /\ State(t, parens).parens = parens /\ State(t, parens).rule = -1
         /\ [State(t, parens) EXCEPT !.out = v] = State(v, parens)
         /\ [State(t, parens) EXCEPT !.parens = v] = State(t, v)
         /\ [State(t, parens) EXCEPT !.rule = 0] = [out |-> t, parens |-> parens, rule |-> 0]
BY DEF State

\* A stylesheet that the pass leaves as it is, with what is open at its end.
Fixed(t, parens) ==
  /\ t \in Seq(Pieces) /\ parens \in Seq(BOOLEAN)
  /\ Css(t) = State(t, parens)
  /\ \A i \in 1..Len(t) : /\ SafePiece(t[i]) /\ SafeIn(t[i], Upto(t, i).parens)
                          /\ Upto(t, i) = State(SubSeq(t, 1, i - 1), Upto(t, i).parens)
                          /\ Upto(t, i).parens \in Seq(BOOLEAN)
  /\ Apart(t, {"l(", "decoy"})

LEMMA FixedNext ==
  ASSUME NEW t, NEW parens, Fixed(t, parens), NEW y \in Pieces, NEW after \in Seq(BOOLEAN),
         SafePiece(y), SafeIn(y, parens), ~(EndsIn(t, "ur") /\ y.p = "l("),
         CssToken(State(t, parens), y) = State(Append(t, y), after)
  PROVE  Fixed(Append(t, y), after)
<1>. DEFINE u == Append(t, y)
            n == Len(t)
<1>1. t \in Seq(Pieces) /\ Css(t) = State(t, parens) /\ Apart(t, {"l(", "decoy"})
  BY DEF Fixed
<1>2. /\ u \in Seq(Pieces) /\ n \in Nat /\ Len(u) = n + 1 /\ u[n + 1] = y
      /\ \A i \in 1..n : u[i] = t[i]
  BY <1>1, AppendProperties, LenProperties
<1>3. Css(u) = State(u, after)
  <2>1. Css(u) = CssStep(State(t, parens), y)
    BY <1>1, CssNext
  <2>2. CssStep(State(t, parens), y) = CssToken(State(t, parens), y)
    BY DEF CssStep, State
  <2>. QED  BY <2>1, <2>2
<1>4. Apart(u, {"l(", "decoy"})
  <2>1. y.p # "decoy"
    BY DEF SafePiece
  <2>. QED  BY <1>1, <2>1, ApartNext
<1>5. \A i \in 1..(n + 1) : SubSeq(u, 1, i - 1) = SubSeq(t, 1, i - 1)
  BY <1>1, <1>2
<1>6. SubSeq(t, 1, n) = t
  BY <1>1
<1>. HIDE DEF u, n
<1>7. ASSUME NEW i \in 1..(n + 1)
      PROVE  /\ SafePiece(u[i]) /\ SafeIn(u[i], Upto(u, i).parens)
             /\ Upto(u, i) = State(SubSeq(u, 1, i - 1), Upto(u, i).parens)
             /\ Upto(u, i).parens \in Seq(BOOLEAN)
  <2>1. Upto(u, i) = Upto(t, i)
    BY ONLY <1>5 DEF Upto
  <2>2. CASE i = n + 1
    <3>1. i - 1 = n
      BY ONLY <1>2, <2>2
    <3>2. Upto(t, i) = State(t, parens)
      BY ONLY <1>1, <1>6, <3>1 DEF Upto
    <3>3. SubSeq(u, 1, i - 1) = t
      BY ONLY <1>5, <1>6, <3>1
    <3>4. Upto(t, i).parens = parens /\ parens \in Seq(BOOLEAN)
      <4>1. State(t, parens).parens = parens
        BY StateMoves
      <4>2. parens \in Seq(BOOLEAN)
        BY DEF Fixed
      <4>. QED  BY ONLY <3>2, <4>1, <4>2
    <3>. QED  BY <1>2, <2>1, <2>2, <3>2, <3>3, <3>4
  <2>3. CASE i # n + 1
    <3>1. i \in 1..n /\ u[i] = t[i]
      BY ONLY <1>2, <2>3
    <3>2. SubSeq(u, 1, i - 1) = SubSeq(t, 1, i - 1)
      BY ONLY <1>5
    <3>. QED  BY <2>1, <3>1, <3>2 DEF Fixed, n
  <2>. QED  BY <2>2, <2>3
<1>. QED  BY <1>2, <1>3, <1>4, <1>7 DEF Fixed, u

RuleDepths == Nat \cup {-1}

\* The pass after the tokens of s: what it has written it would write again, a
\* name it has cut off stays cut off, and a word that comes first stays first.
Cleaned(s, c) ==
  /\ c = [out |-> c.out, parens |-> c.parens, rule |-> c.rule] /\ c.rule \in RuleDepths
  /\ Fixed(c.out, c.parens)
  /\ EndsIn(c.out, "ur") => c.rule = -1 /\ EndsIn(s, "ur")
  /\ c.out = <<>> => c.rule = -1
  /\ c.out = <<>> <=> s = <<>>
  /\ s # <<>> /\ s[1].p = "word" => c.out[1] = s[1]

LEMMA FirstKept ==
  ASSUME NEW S, NEW s \in Seq(S), NEW x \in S
  PROVE  /\ Append(s, x) # <<>> /\ Append(s, x)[1] = (IF s = <<>> THEN x ELSE s[1])
         /\ \A q : EndsIn(Append(s, x), q) <=> x.p = q
<1>1. /\ Append(s, x) # <<>> /\ Len(Append(s, x)) = Len(s) + 1 /\ Append(s, x)[Len(s) + 1] = x
  BY AppendProperties
<1>2. Append(s, x)[1] = (IF s = <<>> THEN x ELSE s[1])
  BY <1>1
<1>. QED  BY <1>1, <1>2 DEF EndsIn

LEMMA CleanedGrows ==
  ASSUME NEW s \in Seq(Pieces), NEW x \in Pieces, NEW c, Cleaned(s, c),
         NEW t, NEW after, NEW r \in RuleDepths, Fixed(t, after), t # <<>>,
         EndsIn(t, "ur") => r = -1 /\ x.p = "ur",
         c.out # <<>> => t[1] = c.out[1],
         c.out = <<>> /\ x.p = "word" => t[1] = x
  PROVE  Cleaned(Append(s, x), [out |-> t, parens |-> after, rule |-> r])
<1>. DEFINE d == [out |-> t, parens |-> after, rule |-> r]
            u == Append(s, x)
<1>1. d.out = t /\ d.parens = after /\ d.rule = r /\ d = [out |-> d.out, parens |-> d.parens, rule |-> d.rule]
  OBVIOUS
<1>2. u # <<>> /\ u[1] = (IF s = <<>> THEN x ELSE s[1]) /\ (EndsIn(u, "ur") <=> x.p = "ur")
  BY FirstKept
<1>. HIDE DEF d, u
<1>3. u[1].p = "word" => t[1] = u[1]
  <2>1. CASE c.out = <<>>
    BY <1>2, <2>1 DEF Cleaned
  <2>2. CASE c.out # <<>>
    BY <1>2, <2>2 DEF Cleaned
  <2>. QED  BY <2>1, <2>2
<1>4. Cleaned(u, d)
  BY <1>1, <1>2, <1>3 DEF Cleaned
<1>. QED  BY <1>4 DEF d, u

LEMMA CleanedStays ==
  ASSUME NEW s \in Seq(Pieces), NEW x \in Pieces, NEW c, Cleaned(s, c), c.rule >= 0, NEW r \in RuleDepths
  PROVE  Cleaned(Append(s, x), [c EXCEPT !.rule = r])
<1>1. /\ c = [out |-> c.out, parens |-> c.parens, rule |-> c.rule]
      /\ Fixed(c.out, c.parens) /\ c.out # <<>> /\ ~EndsIn(c.out, "ur")
  BY DEF Cleaned
<1>2. [c EXCEPT !.rule = r] = [out |-> c.out, parens |-> c.parens, rule |-> r]
  BY <1>1
<1>. QED  BY <1>1, <1>2, CleanedGrows

\* The pass writes y for x.
LEMMA CleanedWrites ==
  ASSUME NEW s \in Seq(Pieces), NEW x \in Pieces, NEW c, Cleaned(s, c),
         NEW y \in Pieces, NEW after \in Seq(BOOLEAN), NEW r \in RuleDepths,
         SafePiece(y), SafeIn(y, c.parens), ~(EndsIn(c.out, "ur") /\ y.p = "l("),
         CssToken(State(c.out, c.parens), y) = State(Append(c.out, y), after),
         y.p = "ur" => r = -1 /\ x.p = "ur",
         x.p = "word" => y = x
  PROVE  Cleaned(Append(s, x), [out |-> Append(c.out, y), parens |-> after, rule |-> r])
<1>1. Fixed(c.out, c.parens) /\ c.out \in Seq(Pieces)
  BY DEF Cleaned, Fixed
<1>2. Fixed(Append(c.out, y), after)
  BY <1>1, FixedNext
<1>3. /\ Append(c.out, y) # <<>> /\ Append(c.out, y)[1] = (IF c.out = <<>> THEN y ELSE c.out[1])
      /\ EndsIn(Append(c.out, y), "ur") <=> y.p = "ur"
  BY <1>1, FirstKept
<1>. QED  BY <1>2, <1>3, CleanedGrows

LEMMA StatePut ==
  ASSUME NEW t, NEW parens, NEW z
  PROVE  Put(State(t, parens), z) = State(t \o z, parens)
<1>. DEFINE a == State(t, parens)
            v == t \o z
<1>1. Put(a, z) = [a EXCEPT !.out = v]
  BY StateMoves, Zenon DEF Put
<1>. HIDE DEF v
<1>2. Put(a, z) = State(v, parens)
  BY <1>1 DEF State
<1>. QED  BY <1>2 DEF v

LEMMA StateOpen ==
  ASSUME NEW t, NEW parens, NEW z
  PROVE  Put(State(t, parens), z).parens = parens
<1>. DEFINE v == t \o z
<1>1. Put(State(t, parens), z) = State(v, parens)
  BY StatePut, Zenon
<1>. HIDE DEF v
<1>. QED  BY <1>1 DEF State

LEMMA StateNest ==
  ASSUME NEW t, NEW parens, NEW z, NEW q, NEW d, d = [Put(State(t, parens), z) EXCEPT !.parens = q]
  PROVE  d = State(t \o z, q)
<1>. DEFINE v == t \o z
<1>1. Put(State(t, parens), z) = State(v, parens)
  BY StatePut, Zenon
<1>2. d = [State(v, parens) EXCEPT !.parens = q]
  BY <1>1
<1>. HIDE DEF v
<1>3. d = State(v, q)
  BY <1>2 DEF State
<1>. QED  BY <1>3 DEF v

\* What one token of each kind does.
LEMMA TokenPuts ==
  ASSUME NEW t, NEW parens, NEW y, NEW z, CssToken(State(t, parens), y) = Put(State(t, parens), z)
  PROVE  CssToken(State(t, parens), y) = State(t \o z, parens)
BY StatePut, Zenon

LEMMA TokenString ==
  ASSUME NEW t, NEW parens, NEW y, y.p = "string"
  PROVE  CssToken(State(t, parens), y) = State(t \o <<KeptString(y, TRUE \in Range(parens))>>, parens)
<1>1. CssToken(State(t, parens), y)
        = Put(State(t, parens), <<KeptString(y, TRUE \in Range(State(t, parens).parens))>>)
  BY DEF CssToken
<1>2. State(t, parens).parens = parens
  BY StateMoves
<1>3. CssToken(State(t, parens), y) = Put(State(t, parens), <<KeptString(y, TRUE \in Range(parens))>>)
  BY <1>1, <1>2
<1>. QED  BY <1>3, TokenPuts, Zenon

LEMMA TokenComment ==
  ASSUME NEW t, NEW parens, NEW y, y.p = "comment"
  PROVE  CssToken(State(t, parens), y) = State(t \o <<[y EXCEPT !.spells = FALSE]>>, parens)
<1>1. CssToken(State(t, parens), y) = Put(State(t, parens), <<[y EXCEPT !.spells = FALSE]>>)
  BY DEF CssToken
<1>. QED  BY <1>1, TokenPuts, Zenon

LEMMA TokenKept ==
  ASSUME NEW t, NEW parens, NEW y,
         \/ y.p \in {"word", "space", "block", "endblock", "semicolon", "ur"}
         \/ y.p = "at" /\ y.of = "allowed"
  PROVE  CssToken(State(t, parens), y) = State(t \o <<y>>, parens)
<1>1. CssToken(State(t, parens), y) = Put(State(t, parens), <<y>>)
  BY DEF CssToken
<1>. QED  BY <1>1, TokenPuts, Zenon

LEMMA TokenRule ==
  ASSUME NEW t, NEW parens, NEW y, y.p = "at", y.of # "allowed"
  PROVE  CssToken(State(t, parens), y) = [out |-> t \o <<Space>>, parens |-> parens, rule |-> 0]
<1>. DEFINE a == State(t, parens)
            v == t \o <<Space>>
<1>1. CssToken(a, y) = [Put(a, <<Space>>) EXCEPT !.rule = 0]
  BY DEF CssToken, DropAtRule
<1>2. Put(a, <<Space>>) = State(v, parens)
  BY StatePut, Zenon
<1>. HIDE DEF a, v
<1>3. CssToken(a, y) = [out |-> v, parens |-> parens, rule |-> 0]
  BY <1>1, <1>2 DEF State
<1>. QED  BY <1>3 DEF a, v

LEMMA TokenOpens ==
  ASSUME NEW t, NEW parens, NEW y, y.p \in {"(", "l(", "image-set("}
  PROVE  CssToken(State(t, parens), y) = State(t \o <<y>>, Append(parens, y.p = "image-set("))
<1>. DEFINE a == State(t, parens)
<1>1. Put(a, <<y>>).parens = parens
  BY StateOpen, Zenon
<1>2. ASSUME NEW b, CssToken(a, y) = [Put(a, <<y>>) EXCEPT !.parens = Append(@, b)]
      PROVE  CssToken(a, y) = State(t \o <<y>>, Append(parens, b))
  <2>. DEFINE q == Append(parens, b)
  <2>1. CssToken(a, y) = [Put(a, <<y>>) EXCEPT !.parens = q]
    BY <1>1, <1>2, Zenon
  <2>. HIDE DEF q
  <2>2. CssToken(a, y) = State(t \o <<y>>, q)
    BY <2>1, StateNest
  <2>. QED  BY <2>2 DEF q
<1>3. CASE y.p = "image-set("
  <2>1. CssToken(a, y) = [Put(a, <<y>>) EXCEPT !.parens = Append(@, TRUE)]
    BY <1>3 DEF CssToken
  <2>2. CssToken(a, y) = State(t \o <<y>>, Append(parens, TRUE))
    BY <1>2, <2>1, Zenon
  <2>. QED  BY <1>3, <2>2
<1>4. CASE y.p \in {"(", "l("}
  <2>1. CssToken(a, y) = [Put(a, <<y>>) EXCEPT !.parens = Append(@, FALSE)]
    BY <1>4 DEF CssToken
  <2>2. CssToken(a, y) = State(t \o <<y>>, Append(parens, FALSE))
    BY <1>2, <2>1, Zenon
  <2>3. (y.p = "image-set(") = FALSE
    BY <1>4
  <2>. QED  BY <2>2, <2>3
<1>. QED  BY <1>3, <1>4

LEMMA TokenCloses ==
  ASSUME NEW t, NEW parens, NEW y, y.p = ")"
  PROVE  CssToken(State(t, parens), y) = State(t \o <<y>>, IF parens = <<>> THEN <<>> ELSE Front(parens))
<1>. DEFINE a == State(t, parens)
            d == Put(a, <<y>>)
            q == IF parens = <<>> THEN <<>> ELSE Front(parens)
<1>1. CssToken(a, y) = [d EXCEPT !.parens = IF @ = <<>> THEN @ ELSE Front(@)]
  BY DEF CssToken
<1>2. d.parens = parens
  BY StateOpen, Zenon
<1>. HIDE DEF d
<1>3. [d EXCEPT !.parens = IF @ = <<>> THEN @ ELSE Front(@)] = [d EXCEPT !.parens = q]
  BY ONLY <1>2
<1>4. CssToken(a, y) = [Put(a, <<y>>) EXCEPT !.parens = q]
  BY <1>1, <1>3 DEF d
<1>. HIDE DEF q
<1>5. CssToken(a, y) = State(t \o <<y>>, q)
  BY <1>4, StateNest
<1>. QED  BY <1>5 DEF q

LEMMA TokenUrl ==
  ASSUME NEW t, NEW parens, NEW y, y.p = "url"
  PROVE  CssToken(State(t, parens), y) = State(t \o <<KeptUrl(y)>>, parens)
<1>1. CssToken(State(t, parens), y) = Put(State(t, parens), <<KeptUrl(y)>>)
  BY DEF CssToken
<1>. QED  BY <1>1, TokenPuts, Zenon

LEMMA TokenDecoy ==
  ASSUME NEW t, NEW parens, NEW y, y.p = "decoy"
  PROVE  CssToken(State(t, parens), y) = State(t \o <<Space>>, parens)
<1>1. CssToken(State(t, parens), y) = Put(State(t, parens), <<Space>>)
  BY DEF CssToken
<1>. QED  BY <1>1, TokenPuts, Zenon

LEMMA TokenOtherUrl ==
  ASSUME NEW t, NEW parens, NEW y, y.p = "xurl("
  PROVE  CssToken(State(t, parens), y)
           = State(t \o <<Word, Space, Piece("(", "none", FALSE)>>, Append(parens, FALSE))
<1>. DEFINE a == State(t, parens)
            z == <<Word, Space, Piece("(", "none", FALSE)>>
<1>1. CssToken(a, y) = [Put(a, z) EXCEPT !.parens = Append(@, FALSE)]
  BY DEF CssToken
<1>. HIDE DEF z
<1>2. Put(a, z).parens = parens
  BY StateOpen, Zenon
<1>. DEFINE q == Append(parens, FALSE)
<1>3. CssToken(a, y) = [Put(a, z) EXCEPT !.parens = q]
  BY <1>1, <1>2, Zenon
<1>. HIDE DEF q
<1>4. CssToken(a, y) = State(t \o z, q)
  BY <1>3, StateNest
<1>. QED  BY <1>4 DEF q, z

LEMMA KindsFacts ==
  /\ Word \in Pieces /\ Space \in Pieces /\ EmptyUrl \in Pieces /\ Piece("(", "none", FALSE) \in Pieces
  /\ Piece("string", "empty", FALSE) \in Pieces /\ Piece("string", "empty", FALSE).p = "string"
  /\ Piece("string", "empty", FALSE).of = "empty" /\ ~Piece("string", "empty", FALSE).spells
  /\ Word.p = "word" /\ Space.p = "space" /\ EmptyUrl.p = "url" /\ Piece("(", "none", FALSE).p = "("
  /\ Word.of = "none" /\ Space.of = "none" /\ EmptyUrl.of = "empty" /\ Piece("(", "none", FALSE).of = "none"
  /\ ~Word.spells /\ ~Space.spells /\ ~EmptyUrl.spells /\ ~Piece("(", "none", FALSE).spells
  /\ ~IsDangerous("empty")
<1>1. {"word", "space", "url", "(", "string"} \subseteq PieceKinds /\ {"none", "empty"} \subseteq Resources
  BY DEF PieceKinds, Resources
<1>2. ~IsDangerous("empty")
  BY DEF IsDangerous
<1>. QED  BY <1>1, <1>2, PieceIs DEF Word, Space, EmptyUrl

\* A token that is kept as it is.
LEMMA CleanedKeeps ==
  ASSUME NEW s \in Seq(Pieces), NEW x \in Pieces, NEW c, Cleaned(s, c),
         x.p \in {"word", "space", "block", "endblock", "semicolon", "ur"}, x.p = "ur" => c.rule = -1
  PROVE  Cleaned(Append(s, x), [out |-> Append(c.out, x), parens |-> c.parens, rule |-> -1])
<1>1. c.out \in Seq(Pieces) /\ c.parens \in Seq(BOOLEAN)
  BY DEF Cleaned, Fixed
<1>2. CssToken(State(c.out, c.parens), x) = State(c.out \o <<x>>, c.parens)
  BY TokenKept
<1>3. c.out \o <<x>> = Append(c.out, x)
  BY <1>1, AppendIsConcat
<1>4. SafePiece(x) /\ SafeIn(x, c.parens)
  BY DEF SafePiece, SafeIn, Pieces
<1>5. x.p = "ur" => -1 = -1 /\ x.p = "ur"
  OBVIOUS
<1>6. /\ x.p = "word" => x = x
      /\ ~(EndsIn(c.out, "ur") /\ x.p = "l(")
  OBVIOUS
<1>7. CssToken(State(c.out, c.parens), x) = State(Append(c.out, x), c.parens) /\ -1 \in RuleDepths
  <2>1. -1 \in RuleDepths
    BY DEF RuleDepths
  <2>. QED  BY ONLY <1>2, <1>3, <2>1, Zenon
<1>. QED  BY ONLY s \in Seq(Pieces), x \in Pieces, Cleaned(s, c), <1>1, <1>4, <1>5, <1>6, <1>7, CleanedWrites, Zenon

LEMMA CleanedInRule ==
  ASSUME NEW s \in Seq(Pieces), NEW x \in Pieces, NEW c, Cleaned(s, c), c.rule >= 0
  PROVE  Cleaned(Append(s, x), AtRuleStep(c, x))
<1>1. c.rule \in RuleDepths /\ c = [out |-> c.out, parens |-> c.parens, rule |-> c.rule]
  BY DEF Cleaned
<1>2. CASE x.p = "endblock" /\ c.rule = 0
  <2>1. AtRuleStep(c, x) = [c EXCEPT !.rule = -1, !.out = Append(@, x)]
    BY <1>2 DEF AtRuleStep
  <2>2. [c EXCEPT !.rule = -1, !.out = Append(@, x)]
          = [out |-> Append(c.out, x), parens |-> c.parens, rule |-> -1]
    <3>. DEFINE v == Append(c.out, x)
    <3>1. [c EXCEPT !.rule = -1, !.out = Append(@, x)] = [c EXCEPT !.rule = -1, !.out = v]
      OBVIOUS
    <3>. HIDE DEF v
    <3>2. [c EXCEPT !.rule = -1, !.out = v] = [out |-> v, parens |-> c.parens, rule |-> -1]
      <4>. DEFINE d == [c EXCEPT !.rule = -1]
      <4>1. d = [out |-> c.out, parens |-> c.parens, rule |-> -1]
        BY <1>1
      <4>2. [c EXCEPT !.rule = -1, !.out = v] = [d EXCEPT !.out = v]
        OBVIOUS
      <4>. HIDE DEF d
      <4>. QED  BY <4>1, <4>2
    <3>. QED  BY <3>1, <3>2 DEF v
  <2>. QED  BY <1>2, <2>1, <2>2, CleanedKeeps
<1>3. CASE ~(x.p = "endblock" /\ c.rule = 0)
  <2>1. \/ AtRuleStep(c, x) = [c EXCEPT !.rule = @ + 1] \/ AtRuleStep(c, x) = [c EXCEPT !.rule = -1]
        \/ AtRuleStep(c, x) = [c EXCEPT !.rule = @ - 1] \/ AtRuleStep(c, x) = c
    BY <1>3 DEF AtRuleStep
  <2>2. c = [c EXCEPT !.rule = c.rule]
    BY <1>1
  <2>3. c.rule + 1 \in RuleDepths /\ c.rule - 1 \in RuleDepths /\ -1 \in RuleDepths
    BY <1>1 DEF RuleDepths
  <2>4. PICK r \in RuleDepths : AtRuleStep(c, x) = [c EXCEPT !.rule = r]
    BY <1>1, <2>1, <2>2, <2>3
  <2>. QED  BY <2>4, CleanedStays
<1>. QED  BY <1>2, <1>3

LEMMA ThreeMore ==
  ASSUME NEW S, NEW t \in Seq(S), NEW a \in S, NEW b \in S, NEW c \in S
  PROVE  t \o <<a, b, c>> = Append(Append(Append(t, a), b), c)
OBVIOUS

LEMMA FrontIn ==
  ASSUME NEW S, NEW q \in Seq(S), q # <<>>
  PROVE  Front(q) \in Seq(S) /\ Len(Front(q)) = Len(q) - 1 /\ \A i \in 1..(Len(q) - 1) : Front(q)[i] = q[i]
<1>1. PICK r \in Seq(S), e \in S : q = Append(r, e)
  BY SequenceEmptyOrAppend
<1>2. Front(q) = r
  BY <1>1 DEF Front
<1>3. Len(q) = Len(r) + 1 /\ Len(r) \in Nat /\ \A i \in 1..Len(r) : q[i] = r[i]
  BY <1>1, AppendProperties, LenProperties
<1>. QED  BY <1>2, <1>3

\* One token outside a rule that is dropped.
LEMMA CleanedToken ==
  ASSUME NEW s \in Seq(Pieces), NEW x \in Pieces, NEW c, Cleaned(s, c), c.rule = -1,
         Apart(Append(s, x), {"l("})
  PROVE  Cleaned(Append(s, x), CssToken(c, x))
<1>. DEFINE t == c.out
            q == c.parens
            Writes(y, after, r) ==
              /\ y \in Pieces /\ after \in Seq(BOOLEAN) /\ r \in RuleDepths
              /\ SafePiece(y) /\ SafeIn(y, q) /\ ~(EndsIn(t, "ur") /\ y.p = "l(")
              /\ CssToken(State(t, q), y) = State(t \o <<y>>, after)
              /\ y.p = "ur" => r = -1 /\ x.p = "ur"
              /\ x.p = "word" => y = x
<1>1. /\ c = State(t, q) /\ t \in Seq(Pieces) /\ q \in Seq(BOOLEAN) /\ -1 \in RuleDepths /\ 0 \in RuleDepths
      /\ Fixed(t, q)
  BY DEF Cleaned, Fixed, State, RuleDepths
<1>2. ~(EndsIn(t, "ur") /\ x.p = "l(")
  BY ApartNext DEF Cleaned
<1>3. ASSUME NEW y, NEW after, NEW r, Writes(y, after, r)
      PROVE  Cleaned(Append(s, x), [out |-> t \o <<y>>, parens |-> after, rule |-> r])
  <2>1. t \o <<y>> = Append(t, y)
    BY <1>1, <1>3, AppendIsConcat
  <2>2. Cleaned(Append(s, x), [out |-> Append(t, y), parens |-> after, rule |-> r])
    BY <1>3, <2>1, CleanedWrites
  <2>. QED  BY <2>1, <2>2
<1>4. /\ x.p \in PieceKinds /\ x.of \in Resources /\ x.spells \in BOOLEAN
      /\ x = [p |-> x.p, of |-> x.of, spells |-> x.spells]
      /\ x.spells => x.p \in {"string", "comment", "url"}
  BY DEF Pieces
<1>. HIDE DEF t, q
<1>5. CASE x.p \in {"word", "space", "block", "endblock", "semicolon", "ur"}
  <2>1. CssToken(c, x) = State(t \o <<x>>, q)
    BY <1>1, <1>5, TokenKept
  <2>2. Writes(x, q, -1)
    BY <1>1, <1>2, <1>4, <1>5, <2>1 DEF SafePiece, SafeIn
  <2>. HIDE DEF Writes
  <2>. QED  BY <1>3, <2>1, <2>2 DEF State
<1>6. CASE x.p = "at"
  <2>1. CASE x.of = "allowed"
    <3>1. CssToken(c, x) = State(t \o <<x>>, q)
      BY <1>1, <1>6, <2>1, TokenKept
    <3>2. Writes(x, q, -1)
      BY <1>1, <1>2, <1>4, <1>6, <2>1, <3>1 DEF SafePiece, SafeIn
    <3>. HIDE DEF Writes
    <3>. QED  BY <1>3, <3>1, <3>2 DEF State
  <2>2. CASE x.of # "allowed"
    <3>1. CssToken(c, x) = [out |-> t \o <<Space>>, parens |-> q, rule |-> 0]
      BY <1>1, <1>6, <2>2, TokenRule
    <3>2. CssToken(State(t, q), Space) = State(t \o <<Space>>, q)
      BY KindsFacts, TokenKept
    <3>3. Writes(Space, q, 0)
      BY <1>1, <1>6, <3>2, KindsFacts DEF SafePiece, SafeIn
    <3>. HIDE DEF Writes
    <3>. QED  BY <1>3, <3>1, <3>3
  <2>. QED  BY <2>1, <2>2
<1>7. CASE x.p = "decoy"
  <2>1. CssToken(c, x) = State(t \o <<Space>>, q)
    BY <1>1, <1>7, TokenDecoy
  <2>2. CssToken(State(t, q), Space) = State(t \o <<Space>>, q)
    BY KindsFacts, TokenKept
  <2>3. Writes(Space, q, -1)
    BY <1>1, <1>7, <2>2, KindsFacts DEF SafePiece, SafeIn
  <2>. HIDE DEF Writes
  <2>. QED  BY <1>3, <2>1, <2>3 DEF State
<1>8. CASE x.p = "string"
  <2>. DEFINE fetched == TRUE \in Range(q)
              y == KeptString(x, fetched)
  <2>1. CssToken(c, x) = State(t \o <<y>>, q)
    BY <1>1, <1>8, TokenString
  <2>2. y.p = "string"
    BY <1>8, KindsFacts DEF KeptString
  <2>3. /\ y \in Pieces /\ ~y.spells /\ (fetched => ~IsDangerous(y.of)) /\ KeptString(y, fetched) = y
    <3>. DEFINE e == Piece("string", "empty", FALSE)
    <3>1. e \in Pieces /\ e.p = "string" /\ e.of = "empty" /\ ~e.spells /\ ~IsDangerous(e.of)
      BY KindsFacts
    <3>. HIDE DEF e, fetched
    <3>2. y = IF (fetched /\ IsDangerous(x.of)) \/ x.spells THEN e ELSE x
      BY DEF KeptString, e
    <3>3. KeptString(y, fetched) = IF (fetched /\ IsDangerous(y.of)) \/ y.spells THEN e ELSE y
      BY DEF KeptString, e
    <3>. HIDE DEF y
    <3>. QED  BY <3>1, <3>2, <3>3
  <2>. HIDE DEF y
  <2>4. CssToken(State(t, q), y) = State(t \o <<y>>, q)
    BY <2>2, <2>3, TokenString
  <2>5. Writes(y, q, -1)
    BY <1>1, <1>8, <2>2, <2>3, <2>4 DEF SafePiece, SafeIn
  <2>. HIDE DEF Writes
  <2>. QED  BY <1>3, <2>1, <2>5 DEF State
<1>9. CASE x.p = "comment"
  <2>. DEFINE y == [x EXCEPT !.spells = FALSE]
  <2>1. CssToken(c, x) = State(t \o <<y>>, q)
    BY <1>1, <1>9, TokenComment
  <2>2. y = Piece(x.p, x.of, FALSE)
    <3>1. \A v : [x EXCEPT !.spells = v] = [p |-> x.p, of |-> x.of, spells |-> v]
      BY <1>4
    <3>. QED  BY <3>1, Zenon DEF Piece
  <2>3. y \in Pieces /\ y.p = "comment" /\ y.of = x.of /\ y.spells = FALSE
    <3>1. /\ Piece(x.p, x.of, FALSE) \in Pieces /\ Piece(x.p, x.of, FALSE).p = x.p
          /\ Piece(x.p, x.of, FALSE).of = x.of /\ Piece(x.p, x.of, FALSE).spells = FALSE
      BY <1>4, PieceIs, Zenon
    <3>. HIDE DEF y
    <3>. QED  BY <1>9, <2>2, <3>1
  <2>. HIDE DEF y
  <2>4. [y EXCEPT !.spells = FALSE] = y
    BY <2>3 DEF Pieces
  <2>5. CssToken(State(t, q), y) = State(t \o <<y>>, q)
    BY <2>3, <2>4, TokenComment
  <2>6. Writes(y, q, -1)
    BY <1>1, <1>9, <2>3, <2>5 DEF SafePiece, SafeIn
  <2>. HIDE DEF Writes
  <2>. QED  BY <1>3, <2>1, <2>6 DEF State
<1>10. CASE x.p \in {"(", "l(", "image-set("}
  <2>. DEFINE after == Append(q, x.p = "image-set(")
  <2>1. CssToken(c, x) = State(t \o <<x>>, after)
    BY <1>1, <1>10, TokenOpens
  <2>2. after \in Seq(BOOLEAN)
    BY <1>1, AppendProperties
  <2>. HIDE DEF after
  <2>3. Writes(x, after, -1)
    BY <1>1, <1>2, <1>4, <1>10, <2>1, <2>2 DEF SafePiece, SafeIn
  <2>. HIDE DEF Writes
  <2>. QED  BY <1>3, <2>1, <2>3 DEF State
<1>11. CASE x.p = ")"
  <2>. DEFINE after == IF q = <<>> THEN <<>> ELSE Front(q)
  <2>1. CssToken(c, x) = State(t \o <<x>>, after)
    BY <1>1, <1>11, TokenCloses
  <2>2. after \in Seq(BOOLEAN)
    BY <1>1, EmptySeq, FrontIn
  <2>. HIDE DEF after
  <2>3. Writes(x, after, -1)
    BY <1>1, <1>2, <1>4, <1>11, <2>1, <2>2 DEF SafePiece, SafeIn
  <2>. HIDE DEF Writes
  <2>. QED  BY <1>3, <2>1, <2>3 DEF State
<1>12. CASE x.p = "url"
  <2>. DEFINE y == KeptUrl(x)
  <2>1. CssToken(c, x) = State(t \o <<y>>, q)
    BY <1>1, <1>12, TokenUrl
  <2>2. y \in Pieces /\ y.p = "url" /\ ~y.spells /\ ~IsDangerous(y.of) /\ KeptUrl(y) = y
    <3>1. y = IF x.of # "bad" /\ ~IsDangerous(x.of) /\ ~x.spells THEN x ELSE EmptyUrl
      BY DEF KeptUrl
    <3>2. KeptUrl(y) = IF y.of # "bad" /\ ~IsDangerous(y.of) /\ ~y.spells THEN y ELSE EmptyUrl
      BY DEF KeptUrl
    <3>. HIDE DEF y
    <3>. QED  BY <1>12, <3>1, <3>2, KindsFacts
  <2>. HIDE DEF y
  <2>3. CssToken(State(t, q), y) = State(t \o <<y>>, q)
    BY <2>2, TokenUrl
  <2>4. Writes(y, q, -1)
    BY <1>1, <1>12, <2>2, <2>3 DEF SafePiece, SafeIn
  <2>. HIDE DEF Writes
  <2>. QED  BY <1>3, <2>1, <2>4 DEF State
<1>13. CASE x.p = "xurl("
  <2>. DEFINE z == Piece("(", "none", FALSE)
              t1 == Append(t, Word)
              t2 == Append(t1, Space)
              t3 == Append(t2, z)
              after == Append(q, FALSE)
  <2>1. CssToken(c, x) = State(t \o <<Word, Space, z>>, after)
    BY <1>1, <1>13, TokenOtherUrl
  <2>2. t \o <<Word, Space, z>> = t3 /\ after \in Seq(BOOLEAN)
    <3>1. Word \in Pieces /\ Space \in Pieces /\ z \in Pieces /\ FALSE \in BOOLEAN
      BY KindsFacts
    <3>2. after \in Seq(BOOLEAN)
      BY <1>1, <3>1, AppendProperties
    <3>. HIDE DEF z
    <3>3. t \o <<Word, Space, z>> = t3
      BY <1>1, <3>1, ThreeMore
    <3>. QED  BY <3>2, <3>3
  <2>3. t1 \in Seq(Pieces) /\ t2 \in Seq(Pieces) /\ t3 \in Seq(Pieces)
    BY <1>1, KindsFacts, AppendProperties
  <2>4. /\ z \in Pieces /\ z.p = "(" /\ z.of = "none" /\ ~z.spells
        /\ (z.p = "image-set(") = FALSE
    BY KindsFacts
  <2>. HIDE DEF z
  <2>5. t \o <<Word>> = t1 /\ t1 \o <<Space>> = t2 /\ t2 \o <<z>> = t3
    BY <1>1, <2>3, <2>4, KindsFacts, AppendIsConcat
  <2>. HIDE DEF t1, t2, t3, after
  <2>6. Fixed(t1, q)
    <3>1. CssToken(State(t, q), Word) = State(t1, q)
      BY <2>5, KindsFacts, TokenKept
    <3>. QED  BY <1>1, <3>1, KindsFacts, FixedNext DEF SafePiece, SafeIn, t1
  <2>7. Fixed(t2, q)
    <3>1. CssToken(State(t1, q), Space) = State(t2, q)
      BY <2>5, KindsFacts, TokenKept
    <3>. QED  BY <1>1, <2>6, <3>1, KindsFacts, FixedNext DEF SafePiece, SafeIn, t2
  <2>8. Fixed(t3, after)
    <3>1. CssToken(State(t2, q), z) = State(t2 \o <<z>>, Append(q, z.p = "image-set("))
      BY <2>4, TokenOpens
    <3>2. CssToken(State(t2, q), z) = State(t3, after)
      BY <2>4, <2>5, <3>1 DEF after
    <3>. QED  BY <1>1, <2>2, <2>4, <2>7, <3>2, FixedNext DEF SafePiece, SafeIn, t3
  <2>9. t3 # <<>> /\ ~EndsIn(t3, "ur") /\ t3[1] = IF t = <<>> THEN Word ELSE t[1]
    <3>1. /\ t1 # <<>> /\ t1[1] = (IF t = <<>> THEN Word ELSE t[1])
      BY <1>1, KindsFacts, FirstKept DEF t1
    <3>2. t2 # <<>> /\ t2[1] = (IF t1 = <<>> THEN Space ELSE t1[1])
      BY <2>3, KindsFacts, FirstKept DEF t2
    <3>3. t3 # <<>> /\ t3[1] = (IF t2 = <<>> THEN z ELSE t2[1]) /\ (EndsIn(t3, "ur") <=> z.p = "ur")
      BY <2>3, <2>4, FirstKept DEF t3
    <3>. QED  BY <2>4, <3>1, <3>2, <3>3
  <2>10. Cleaned(Append(s, x), [out |-> t3, parens |-> after, rule |-> -1])
    BY <1>1, <1>13, <2>8, <2>9, KindsFacts, CleanedGrows DEF t
  <2>. QED  BY <2>1, <2>2, <2>10 DEF State
<1>. QED  BY <1>4, <1>5, <1>6, <1>7, <1>8, <1>9, <1>10, <1>11, <1>12, <1>13 DEF PieceKinds

\* What is left of a stylesheet, a second pass leaves as it is.
LEMMA CssCleaned ==
  ASSUME NEW s \in Seq(Pieces), Apart(s, {"l("})
  PROVE  Cleaned(s, Css(s))
<1>. DEFINE K == {"l("}
            X == {t \in Seq(Pieces) : Apart(t, K) => Cleaned(t, Css(t))}
<1>1. <<>> \in X
  <2>1. Css(<<>>) = State(<<>>, <<>>)
    BY CssNext DEF CssStart, State
  <2>2. Fixed(<<>>, <<>>)
    <3>1. Apart(<<>>, {"l(", "decoy"}) /\ <<>> \in Seq(Pieces) /\ <<>> \in Seq(BOOLEAN)
      BY DEF Apart
    <3>. QED  BY <2>1, <3>1 DEF Fixed
  <2>3. Cleaned(<<>>, State(<<>>, <<>>))
    <3>1. ~EndsIn(<<>>, "ur")
      BY DEF EndsIn
    <3>2. -1 \in RuleDepths
      BY DEF RuleDepths
    <3>. QED  BY <2>2, <3>1, <3>2 DEF Cleaned, State
  <2>. QED  BY <2>1, <2>3
<1>2. ASSUME NEW t \in Seq(Pieces), NEW x \in Pieces, t \in X PROVE Append(t, x) \in X
  <2>1. Append(t, x) \in Seq(Pieces)
    BY AppendProperties
  <2>. SUFFICES ASSUME Apart(Append(t, x), K) PROVE Cleaned(Append(t, x), Css(Append(t, x)))
    BY <2>1
  <2>. DEFINE c == Css(t)
  <2>2. Cleaned(t, c)
    BY <1>2, ApartNext
  <2>3. Css(Append(t, x)) = CssStep(c, x)
    BY CssNext
  <2>. HIDE DEF c
  <2>4. CssStep(c, x) = IF c.rule >= 0 THEN AtRuleStep(c, x) ELSE CssToken(c, x)
    BY DEF CssStep
  <2>5. c.rule >= 0 \/ c.rule = -1
    BY <2>2 DEF Cleaned, RuleDepths
  <2>. QED  BY <2>2, <2>3, <2>4, <2>5, CleanedInRule, CleanedToken
<1>. HIDE DEF X
<1>3. Seq(Pieces) \subseteq X
  BY <1>1, <1>2, SeqSet
<1>. QED  BY <1>3 DEF X

-----------------------------------------------------------------------------
(* Strings in an image-set() *)

LEMMA CountsGrow ==
  ASSUME NEW css, NEW a \in Nat \ {0}, NEW k \in Nat, a <= k + 1
  PROVE  /\ Opens(css, a, k) \in Nat /\ Closes(css, a, k) \in Nat
         /\ Opens(css, a, k + 1)
              = Opens(css, a, k) + (IF css[k + 1].p \in {"(", "l(", "image-set("} THEN 1 ELSE 0)
         /\ Closes(css, a, k + 1) = Closes(css, a, k) + (IF css[k + 1].p = ")" THEN 1 ELSE 0)
<1>. DEFINE O(b) == {i \in a..b : css[i].p \in {"(", "l(", "image-set("}}
            C(b) == {i \in a..b : css[i].p = ")"}
<1>1. IsFiniteSet(a..k)
  BY FS_Interval
<1>2. IsFiniteSet(O(k)) /\ IsFiniteSet(C(k))
  BY <1>1, FS_Subset
<1>3. k + 1 \notin O(k) /\ k + 1 \notin C(k) /\ a..(k + 1) = (a..k) \cup {k + 1}
  OBVIOUS
<1>4. /\ O(k + 1) = IF css[k + 1].p \in {"(", "l(", "image-set("} THEN O(k) \cup {k + 1} ELSE O(k)
      /\ C(k + 1) = IF css[k + 1].p = ")" THEN C(k) \cup {k + 1} ELSE C(k)
  BY <1>3
<1>. HIDE DEF O, C
<1>5. Cardinality(O(k)) \in Nat /\ Cardinality(C(k)) \in Nat
  BY <1>2, FS_CardinalityType
<1>6. /\ Cardinality(O(k) \cup {k + 1}) = Cardinality(O(k)) + 1
      /\ Cardinality(C(k) \cup {k + 1}) = Cardinality(C(k)) + 1
  BY <1>2, <1>3, FS_AddElement
<1>7. Opens(css, a, k) = Cardinality(O(k)) /\ Closes(css, a, k) = Cardinality(C(k))
  BY DEF Opens, Closes, O, C
<1>8. Opens(css, a, k + 1) = Cardinality(O(k + 1)) /\ Closes(css, a, k + 1) = Cardinality(C(k + 1))
  BY DEF Opens, Closes, O, C
<1>. QED  BY <1>4, <1>5, <1>6, <1>7, <1>8

LEMMA CountsStart ==
  ASSUME NEW css, NEW j \in Nat
  PROVE  Opens(css, j + 1, j) = 0 /\ Closes(css, j + 1, j) = 0
<1>1. (j + 1)..j = {}
  OBVIOUS
<1>2. /\ {k \in (j + 1)..j : css[k].p \in {"(", "l(", "image-set("}} = {}
      /\ {k \in (j + 1)..j : css[k].p = ")"} = {}
  BY <1>1
<1>. QED  BY <1>2, FS_EmptySet DEF Opens, Closes

\* What a token that is kept opens and closes.
LEMMA TokenParens ==
  ASSUME NEW t, NEW q, NEW y \in Pieces, SafePiece(y)
  PROVE  CssToken(State(t, q), y).parens =
           IF y.p \in {"(", "l(", "image-set("} THEN Append(q, y.p = "image-set(")
           ELSE IF y.p = ")" THEN IF q = <<>> THEN <<>> ELSE Front(q)
           ELSE q
<1>0. y.p \in PieceKinds /\ y.p \notin {"xurl(", "decoy"} /\ (y.p = "at" => y.of = "allowed")
  BY DEF Pieces, SafePiece
<1>1. ASSUME NEW d, NEW o, NEW r, d = State(o, r) PROVE d.parens = r
  BY <1>1 DEF State
<1>. DEFINE c == CssToken(State(t, q), y)
<1>2. CASE y.p \in {"(", "l(", "image-set("}
  <2>. DEFINE r == Append(q, y.p = "image-set(")
  <2>1. c = State(t \o <<y>>, r)
    BY <1>2, TokenOpens
  <2>. HIDE DEF r, c
  <2>2. c.parens = r
    BY ONLY <1>1, <2>1, Zenon
  <2>. QED  BY ONLY <1>2, <2>2 DEF r, c
<1>3. CASE y.p = ")"
  <2>. DEFINE r == IF q = <<>> THEN <<>> ELSE Front(q)
  <2>1. c = State(t \o <<y>>, r)
    BY <1>3, TokenCloses
  <2>. HIDE DEF r, c
  <2>2. c.parens = r
    BY ONLY <1>1, <2>1, Zenon
  <2>. QED  BY ONLY <1>3, <2>2 DEF r, c
<1>4. CASE y.p = "string"
  <2>1. c = State(t \o <<KeptString(y, TRUE \in Range(q))>>, q)
    BY <1>4, TokenString
  <2>. HIDE DEF c
  <2>2. c.parens = q
    BY ONLY <1>1, <2>1, Zenon
  <2>. QED  BY ONLY <1>4, <2>2 DEF c
<1>5. CASE y.p = "comment"
  <2>1. c = State(t \o <<[y EXCEPT !.spells = FALSE]>>, q)
    BY <1>5, TokenComment
  <2>. HIDE DEF c
  <2>2. c.parens = q
    BY ONLY <1>1, <2>1, Zenon
  <2>. QED  BY ONLY <1>5, <2>2 DEF c
<1>6. CASE y.p = "url"
  <2>1. c = State(t \o <<KeptUrl(y)>>, q)
    BY <1>6, TokenUrl
  <2>. HIDE DEF c
  <2>2. c.parens = q
    BY ONLY <1>1, <2>1, Zenon
  <2>. QED  BY ONLY <1>6, <2>2 DEF c
<1>7. CASE y.p \in {"word", "space", "block", "endblock", "semicolon", "ur", "at"}
  <2>1. c = State(t \o <<y>>, q)
    BY <1>0, <1>7, TokenKept
  <2>. HIDE DEF c
  <2>2. c.parens = q
    BY ONLY <1>1, <2>1, Zenon
  <2>. QED  BY ONLY <1>7, <2>2 DEF c
<1>. QED  BY <1>0, <1>2, <1>3, <1>4, <1>5, <1>6, <1>7 DEF PieceKinds

\* One more token of a stylesheet that the pass leaves as it is.
LEMMA UptoNext ==
  ASSUME NEW t, NEW parens, Fixed(t, parens), NEW i \in 1..Len(t)
  PROVE  Upto(t, i + 1).parens = CssToken(State(SubSeq(t, 1, i - 1), Upto(t, i).parens), t[i]).parens
<1>1. /\ t \in Seq(Pieces) /\ Upto(t, i) = State(SubSeq(t, 1, i - 1), Upto(t, i).parens)
  BY DEF Fixed
<1>2. /\ SubSeq(t, 1, i - 1) \in Seq(Pieces) /\ t[i] \in Pieces
      /\ SubSeq(t, 1, i) = Append(SubSeq(t, 1, i - 1), t[i]) /\ (i + 1) - 1 = i
  BY <1>1, LenProperties
<1>. DEFINE u == SubSeq(t, 1, i - 1)
            q == Upto(t, i).parens
<1>3. Upto(t, i) = State(u, q) /\ Upto(t, i) = Css(u) /\ Upto(t, i + 1) = Css(Append(u, t[i]))
  BY <1>1, <1>2 DEF Upto
<1>. HIDE DEF u, q
<1>4. Css(Append(u, t[i])) = CssStep(Css(u), t[i])
  BY <1>2, CssNext DEF u
<1>5. CssStep(State(u, q), t[i]) = CssToken(State(u, q), t[i])
  BY DEF CssStep, State
<1>6. Upto(t, i + 1) = CssToken(State(u, q), t[i])
  BY ONLY <1>3, <1>4, <1>5
<1>. QED  BY ONLY <1>6 DEF u, q

\* What one token does to the parenthesis at height h, told by counts.
LEMMA HeightNext ==
  ASSUME NEW q \in Seq(BOOLEAN), NEW h \in Nat \ {0}, NEW y, NEW after, h <= Len(q), q[h] = TRUE,
         y.p \in {"(", "l(", "image-set("} => \E b \in BOOLEAN : after = Append(q, b),
         y.p = ")" => after = Front(q) /\ h <= Len(q) - 1,
         y.p \notin {"(", "l(", "image-set(", ")"} => after = q
  PROVE  /\ after \in Seq(BOOLEAN) /\ after[h] = TRUE
         /\ Len(after) = Len(q) + (IF y.p \in {"(", "l(", "image-set("} THEN 1 ELSE 0)
                                - (IF y.p = ")" THEN 1 ELSE 0)
<1>0. Len(q) \in Nat /\ q # <<>>
  BY LenProperties
<1>1. CASE y.p \in {"(", "l(", "image-set("}
  <2>1. PICK b \in BOOLEAN : after = Append(q, b) /\ y.p # ")"
    BY <1>1
  <2>2. Append(q, b) \in Seq(BOOLEAN) /\ Len(Append(q, b)) = Len(q) + 1 /\ Append(q, b)[h] = q[h]
    BY <1>0, <2>1, AppendProperties
  <2>. QED  BY <1>0, <1>1, <2>1, <2>2
<1>2. CASE y.p = ")"
  <2>1. after = Front(q) /\ y.p \notin {"(", "l(", "image-set("}
    BY <1>0, <1>2
  <2>2. Front(q) \in Seq(BOOLEAN) /\ Len(Front(q)) = Len(q) - 1 /\ \A i \in 1..(Len(q) - 1) : Front(q)[i] = q[i]
    BY <1>0, FrontIn
  <2>3. h \in 1..(Len(q) - 1)
    BY <1>0, <1>2
  <2>. QED  BY <1>0, <1>2, <2>1, <2>2, <2>3
<1>3. CASE y.p \notin {"(", "l(", "image-set(", ")"}
  <2>1. after = q
    BY <1>3, Zenon
  <2>. QED  BY ONLY <1>0, <1>3, <2>1, q \in Seq(BOOLEAN), q[h] = TRUE
<1>. QED  BY <1>1, <1>2, <1>3

LEMMA Sums ==
  ASSUME NEW h \in Nat, NEW o \in Nat, NEW c \in Nat, NEW up \in Nat, NEW down \in Nat
  PROVE  (h + o - c) + up - down = h + (o + up) - (c + down)
OBVIOUS

\* A string under an image-set( that is not closed is one the pass takes for a URL.
LEMMA StaysOpen ==
  ASSUME NEW t, NEW parens, Fixed(t, parens), NEW i \in 1..Len(t), NEW j \in 1..(i - 1),
         t[j].p = "image-set(", \A k \in j..(i - 1) : Closes(t, j + 1, k) <= Opens(t, j + 1, k)
  PROVE  TRUE \in Range(Upto(t, i).parens)
<1>. DEFINE P(k) == Upto(t, k).parens
            h == Len(P(j + 1))
            Q(k) == /\ P(k + 1) \in Seq(BOOLEAN) /\ P(k + 1)[h] = TRUE
                    /\ Len(P(k + 1)) = h + Opens(t, j + 1, k) - Closes(t, j + 1, k)
            X == {n \in Nat : j + n <= i - 1 => Q(j + n)}
<1>1. /\ t \in Seq(Pieces) /\ Len(t) \in Nat /\ i \in Nat /\ j \in Nat /\ j >= 1 /\ j <= i - 1 /\ i <= Len(t)
  BY LenProperties DEF Fixed
<1>2. \A k \in 1..Len(t) : t[k] \in Pieces /\ SafePiece(t[k]) /\ P(k) \in Seq(BOOLEAN)
  BY <1>1 DEF Fixed
<1>3. ASSUME NEW k \in 1..Len(t)
      PROVE  P(k + 1) = IF t[k].p \in {"(", "l(", "image-set("} THEN Append(P(k), t[k].p = "image-set(")
                        ELSE IF t[k].p = ")" THEN IF P(k) = <<>> THEN <<>> ELSE Front(P(k))
                        ELSE P(k)
  <2>1. P(k + 1) = CssToken(State(SubSeq(t, 1, k - 1), P(k)), t[k]).parens
    BY UptoNext
  <2>2. t[k] \in Pieces /\ SafePiece(t[k])
    BY <1>2
  <2>. DEFINE u == SubSeq(t, 1, k - 1)
              q == P(k)
              y == t[k]
  <2>3. CssToken(State(u, q), y).parens =
          IF y.p \in {"(", "l(", "image-set("} THEN Append(q, y.p = "image-set(")
          ELSE IF y.p = ")" THEN IF q = <<>> THEN <<>> ELSE Front(q)
          ELSE q
    <3>. HIDE DEF u, q, P
    <3>. HIDE DEF y
    <3>1. y \in Pieces /\ SafePiece(y)
      BY <2>2 DEF y
    <3>. QED  BY ONLY <3>1, TokenParens
  <2>. HIDE DEF P
  <2>. QED  BY ONLY <2>1, <2>3, Zenon
<1>. HIDE DEF P
<1>4. /\ P(j + 1) \in Seq(BOOLEAN) /\ h \in Nat \ {0} /\ P(j + 1)[h] = TRUE
  <2>1. j \in 1..Len(t) /\ P(j) \in Seq(BOOLEAN)
    BY <1>1, <1>2
  <2>2. P(j + 1) = Append(P(j), TRUE)
    <3>1. (t[j].p = "image-set(") = TRUE
      OBVIOUS
    <3>2. P(j + 1) = Append(P(j), t[j].p = "image-set(")
      BY <1>3, <2>1
    <3>. QED  BY ONLY <3>1, <3>2
  <2>3. TRUE \in BOOLEAN
    OBVIOUS
  <2>4. Len(P(j)) \in Nat
    BY <2>1, LenProperties
  <2>5. /\ Append(P(j), TRUE) \in Seq(BOOLEAN) /\ Len(Append(P(j), TRUE)) = Len(P(j)) + 1
        /\ Append(P(j), TRUE)[Len(P(j)) + 1] = TRUE
    BY ONLY <2>1, <2>3, AppendProperties
  <2>6. h = Len(P(j)) + 1
    BY ONLY <2>2, <2>5 DEF h
  <2>. HIDE DEF h
  <2>7. h \in Nat \ {0}
    BY ONLY <2>4, <2>6
  <2>. QED  BY ONLY <2>2, <2>5, <2>6, <2>7
<1>. HIDE DEF h
<1>5. 0 \in X
  <2>1. Opens(t, j + 1, j) = 0 /\ Closes(t, j + 1, j) = 0
    BY <1>1, CountsStart
  <2>2. Q(j)
    BY <1>4, <2>1 DEF h
  <2>3. j + 0 = j
    BY <1>1
  <2>. HIDE DEF Q
  <2>. QED  BY <2>2, <2>3
<1>6. ASSUME NEW n \in Nat, n \in X PROVE n + 1 \in X
  <2>. DEFINE k == j + n
              l == k + 1
  <2>0. j + (n + 1) = l
    BY <1>1
  <2>. SUFFICES ASSUME l <= i - 1 PROVE Q(l)
    <3>. HIDE DEF Q, l
    <3>. QED  BY <2>0
  <2>1. k \in Nat /\ l \in 1..Len(t) /\ l \in j..(i - 1) /\ j + 1 \in Nat \ {0} /\ j + 1 <= k + 1 /\ k <= i - 1
    BY <1>1
  <2>2. Q(k)
    BY <1>6, <2>1
  <2>. HIDE DEF k
  <2>3. /\ Opens(t, j + 1, k) \in Nat /\ Closes(t, j + 1, k) \in Nat
        /\ Opens(t, j + 1, l)
             = Opens(t, j + 1, k) + (IF t[l].p \in {"(", "l(", "image-set("} THEN 1 ELSE 0)
        /\ Closes(t, j + 1, l) = Closes(t, j + 1, k) + (IF t[l].p = ")" THEN 1 ELSE 0)
    BY <2>1, CountsGrow
  <2>4. Closes(t, j + 1, l) <= Opens(t, j + 1, l) /\ Closes(t, j + 1, k) <= Opens(t, j + 1, k)
    <3>1. k \in j..(i - 1)
      BY <1>1, <2>1
    <3>. QED  BY <2>1, <3>1
  <2>. HIDE DEF l
  <2>5. /\ P(l) \in Seq(BOOLEAN) /\ P(l)[h] = TRUE
        /\ Len(P(l)) = h + Opens(t, j + 1, k) - Closes(t, j + 1, k)
    BY <2>2 DEF l
  <2>6. h <= Len(P(l)) /\ (t[l].p = ")" => h <= Len(P(l)) - 1)
    <3>1. h \in Nat
      BY ONLY <1>4
    <3>2. Len(P(l)) = h + Opens(t, j + 1, k) - Closes(t, j + 1, k)
      BY ONLY <2>5
    <3>3. /\ Opens(t, j + 1, k) \in Nat /\ Closes(t, j + 1, k) \in Nat
          /\ Closes(t, j + 1, k) <= Opens(t, j + 1, k)
          /\ t[l].p = ")" => Closes(t, j + 1, k) + 1 <= Opens(t, j + 1, k)
      BY ONLY <2>3, <2>4
    <3>. DEFINE o == Opens(t, j + 1, k)
                c == Closes(t, j + 1, k)
                m == Len(P(l))
    <3>4. o \in Nat /\ c \in Nat /\ c <= o /\ (t[l].p = ")" => c + 1 <= o) /\ m = h + o - c
      BY ONLY <3>2, <3>3
    <3>. HIDE DEF o, c, m
    <3>5. h <= m /\ (t[l].p = ")" => h <= m - 1)
      BY ONLY <3>1, <3>4
    <3>. QED  BY ONLY <3>5 DEF m
  <2>7. /\ P(l + 1) \in Seq(BOOLEAN) /\ P(l + 1)[h] = TRUE
        /\ Len(P(l + 1)) = Len(P(l)) + (IF t[l].p \in {"(", "l(", "image-set("} THEN 1 ELSE 0)
                                     - (IF t[l].p = ")" THEN 1 ELSE 0)
    <3>1. P(l + 1) = IF t[l].p \in {"(", "l(", "image-set("} THEN Append(P(l), t[l].p = "image-set(")
                     ELSE IF t[l].p = ")" THEN IF P(l) = <<>> THEN <<>> ELSE Front(P(l))
                     ELSE P(l)
      BY <1>3, <2>1
    <3>. DEFINE q == P(l)
                y == t[l]
                after == P(l + 1)
    <3>2. /\ q \in Seq(BOOLEAN) /\ h \in Nat \ {0} /\ h <= Len(q) /\ q[h] = TRUE
          /\ y.p = ")" => h <= Len(q) - 1
      BY <1>4, <2>5, <2>6
    <3>. HIDE DEF q, y, after
    <3>3. after = IF y.p \in {"(", "l(", "image-set("} THEN Append(q, y.p = "image-set(")
                  ELSE IF y.p = ")" THEN IF q = <<>> THEN <<>> ELSE Front(q)
                  ELSE q
      BY ONLY <3>1, Zenon DEF q, y, after
    <3>5. y.p \in {"(", "l(", "image-set("} => \E b \in BOOLEAN : after = Append(q, b)
      <4>. SUFFICES ASSUME y.p \in {"(", "l(", "image-set("} PROVE \E b \in BOOLEAN : after = Append(q, b)
        OBVIOUS
      <4>1. after = Append(q, y.p = "image-set(")
        BY ONLY <3>3, y.p \in {"(", "l(", "image-set("}, Zenon
      <4>2. (y.p = "image-set(") \in BOOLEAN
        OBVIOUS
      <4>. QED  BY ONLY <4>1, <4>2, Zenon
    <3>6. q # <<>>
      BY ONLY <3>2
    <3>7. y.p = ")" => after = Front(q) /\ h <= Len(q) - 1
      <4>. SUFFICES ASSUME y.p = ")" PROVE after = Front(q)
        BY <3>2
      <4>1. y.p \notin {"(", "l(", "image-set("}
        OBVIOUS
      <4>. QED  BY ONLY <3>3, <3>6, <4>1, y.p = ")", Zenon
    <3>8. y.p \notin {"(", "l(", "image-set(", ")"} => after = q
      BY ONLY <3>3, Zenon
    <3>4. /\ after \in Seq(BOOLEAN) /\ after[h] = TRUE
          /\ Len(after) = Len(q) + (IF y.p \in {"(", "l(", "image-set("} THEN 1 ELSE 0)
                                - (IF y.p = ")" THEN 1 ELSE 0)
      BY ONLY <3>2, <3>5, <3>7, <3>8, HeightNext
    <3>. QED  BY ONLY <3>4 DEF q, y, after
  <2>8. Len(P(l + 1)) = h + Opens(t, j + 1, l) - Closes(t, j + 1, l)
    <3>1. h \in Nat
      BY ONLY <1>4
    <3>2. /\ Len(P(l)) = h + Opens(t, j + 1, k) - Closes(t, j + 1, k)
          /\ Len(P(l + 1)) = Len(P(l)) + (IF t[l].p \in {"(", "l(", "image-set("} THEN 1 ELSE 0)
                                     - (IF t[l].p = ")" THEN 1 ELSE 0)
      BY ONLY <2>5, <2>7
    <3>. DEFINE up == IF t[l].p \in {"(", "l(", "image-set("} THEN 1 ELSE 0
                down == IF t[l].p = ")" THEN 1 ELSE 0
    <3>3. up \in Nat /\ down \in Nat
      OBVIOUS
    <3>. HIDE DEF up, down
    <3>4. /\ Opens(t, j + 1, l) = Opens(t, j + 1, k) + up /\ Closes(t, j + 1, l) = Closes(t, j + 1, k) + down
          /\ Opens(t, j + 1, k) \in Nat /\ Closes(t, j + 1, k) \in Nat
      BY ONLY <2>3, Zenon DEF up, down
    <3>5. Len(P(l + 1)) = Len(P(l)) + up - down
      BY ONLY <3>2, Zenon DEF up, down
    <3>6. Len(P(l)) = h + Opens(t, j + 1, k) - Closes(t, j + 1, k)
      BY ONLY <3>2
    <3>7. (h + Opens(t, j + 1, k) - Closes(t, j + 1, k)) + up - down
            = h + (Opens(t, j + 1, k) + up) - (Closes(t, j + 1, k) + down)
      BY ONLY <3>1, <3>3, <3>4, Sums
    <3>. QED  BY ONLY <3>4, <3>5, <3>6, <3>7, Zenon
  <2>. QED  BY ONLY <2>7, <2>8
<1>. HIDE DEF X
<1>7. i - 1 - j \in X
  <2>1. i - 1 - j \in Nat
    BY <1>1
  <2>. QED  BY <1>5, <1>6, <2>1, NatSet
<1>8. Q(i - 1)
  <2>1. j + (i - 1 - j) = i - 1 /\ i - 1 <= i - 1
    BY <1>1
  <2>. HIDE DEF Q
  <2>. QED  BY <1>7, <2>1 DEF X
<1>9. /\ P(i) \in Seq(BOOLEAN) /\ P(i)[h] = TRUE /\ h <= Len(P(i))
  <2>1. (i - 1) + 1 = i /\ i - 1 \in j..(i - 1) /\ i - 1 \in Nat /\ j + 1 <= (i - 1) + 1
    BY <1>1
  <2>2. Opens(t, j + 1, i - 1) \in Nat /\ Closes(t, j + 1, i - 1) \in Nat
    <3>1. j + 1 \in Nat \ {0}
      BY <1>1
    <3>. QED  BY ONLY <2>1, <3>1, CountsGrow
  <2>3. Closes(t, j + 1, i - 1) <= Opens(t, j + 1, i - 1)
    BY <2>1
  <2>4. /\ P(i) \in Seq(BOOLEAN) /\ P(i)[h] = TRUE
        /\ Len(P(i)) = h + Opens(t, j + 1, i - 1) - Closes(t, j + 1, i - 1)
    BY ONLY <1>8, <2>1
  <2>5. h \in Nat /\ Len(P(i)) = h + Opens(t, j + 1, i - 1) - Closes(t, j + 1, i - 1)
    BY ONLY <1>4, <2>4
  <2>6. h <= Len(P(i))
    BY ONLY <2>2, <2>3, <2>5
  <2>. QED  BY ONLY <2>4, <2>6
<1>10. h \in DOMAIN P(i)
  BY <1>4, <1>9, LenProperties
<1>. QED  BY <1>9, <1>10 DEF Range, P

LEMMA FixedIsInert ==
  ASSUME NEW t, NEW parens, Fixed(t, parens), Lex(t) = t, NEW b \in BOOLEAN
  PROVE  ~Fetches(t, b)
<1>. SUFFICES ASSUME Fetches(t, b) PROVE FALSE
  OBVIOUS
<1>1. PICK i \in DOMAIN t :
        \/ t[i].p \in {"url", "xurl("} /\ IsDangerous(t[i].of)
        \/ t[i].p = "decoy" \/ t[i].spells
        \/ t[i].p = "at" /\ t[i].of # "allowed"
        \/ /\ t[i].p = "string" /\ IsDangerous(t[i].of)
           /\ \E j \in 1..(i - 1) : /\ t[j].p = "image-set("
                                    /\ \A k \in j..(i - 1) : Closes(t, j + 1, k) <= Opens(t, j + 1, k)
  BY Zenon DEF Fetches
<1>2. i \in 1..Len(t)
  BY LenProperties DEF Fixed
<1>3. SafePiece(t[i]) /\ SafeIn(t[i], Upto(t, i).parens)
  BY <1>2 DEF Fixed
<1>4. PICK j \in 1..(i - 1) : /\ t[j].p = "image-set("
                              /\ \A k \in j..(i - 1) : Closes(t, j + 1, k) <= Opens(t, j + 1, k)
  BY <1>1, <1>3, Zenon DEF SafePiece
<1>5. t[i].p = "string" /\ IsDangerous(t[i].of)
  BY <1>1, <1>3 DEF SafePiece
<1>6. TRUE \in Range(Upto(t, i).parens)
  BY <1>2, <1>4, StaysOpen
<1>. QED  BY <1>3, <1>5, <1>6 DEF SafeIn

\* A sanitized text is text again, a second pass leaves it as it is, and nothing in
\* it is fetched; what it names as a whole, the text it was made of named.
LEMMA CssFacts ==
  ASSUME NEW text \in Seq(Pieces)
  PROVE  /\ SanitizeCss(text) \in Seq(Pieces)
         /\ SanitizeCss(SanitizeCss(text)) = SanitizeCss(text)
         /\ \A b \in BOOLEAN : ~Fetches(SanitizeCss(text), b)
         /\ IsDangerous(NamedBy(SanitizeCss(text))) => IsDangerous(NamedBy(text))
         /\ SanitizeCss(text) = <<>> <=> text = <<>>
<1>. DEFINE l == Lex(text)
            t == Css(l).out
<1>1. SanitizeCss(text) = t
  BY DEF SanitizeCss, Css, CssStart
<1>2. /\ l \in Seq(Pieces) /\ Apart(l, {"l("}) /\ (l = <<>> <=> text = <<>>)
      /\ l # <<>> => l[1] = text[1] \/ text[1].p # "word"
  BY LexFacts
<1>3. Cleaned(l, Css(l))
  BY <1>2, CssCleaned
<1>. HIDE DEF l
<1>4. Fixed(t, Css(l).parens)
  BY <1>3 DEF Cleaned
<1>5. (t = <<>> <=> l = <<>>) /\ (l # <<>> /\ l[1].p = "word" => t[1] = l[1])
  BY <1>3 DEF Cleaned
<1>. DEFINE q == Css(l).parens
<1>. HIDE DEF t, q
<1>7. Fixed(t, q) /\ t \in Seq(Pieces) /\ Css(t) = State(t, q) /\ Apart(t, {"l(", "decoy"})
  BY <1>4 DEF Fixed, q
<1>8. Lex(t) = t
  BY <1>7, LexKeeps
<1>9. SanitizeCss(t) = t
  <2>1. SanitizeCss(t) = Css(Lex(t)).out
    BY DEF SanitizeCss, Css, CssStart
  <2>. QED  BY <1>7, <1>8, <2>1 DEF State
<1>10. \A b \in BOOLEAN : ~Fetches(t, b)
  BY <1>7, <1>8, FixedIsInert
<1>11. IsDangerous(NamedBy(t)) => IsDangerous(NamedBy(text))
  <2>1. CASE text = <<>>
    BY <1>2, <1>5, <2>1
  <2>2. CASE text # <<>> /\ text[1].p = "word"
    BY <1>2, <1>5, <2>2 DEF NamedBy
  <2>3. CASE text # <<>> /\ text[1].p # "word"
    BY <2>3 DEF NamedBy, IsDangerous
  <2>. QED  BY <2>1, <2>2, <2>3
<1>. QED  BY <1>1, <1>2, <1>5, <1>7, <1>9, <1>10, <1>11

-----------------------------------------------------------------------------
(* Attributes *)

\* An attribute that is written: nothing in it is fetched, and it is written again
\* as it is, whatever entities are declared.
GoodAttribute(a) ==
  /\ a.ref = "none" /\ a.key \notin {"handler", "xml:base"}
  /\ ~Fetches(a.text, a.key = "style")
  /\ a.key = "href" => ~IsDangerous(NamedBy(a.text))
  /\ \A entities : SanitizedAttribute(a, entities) = <<a>>

\* A text that mentions no resource.
LEMMA UnmentionedIsInert ==
  ASSUME NEW text \in Seq(Pieces), ~MentionsResource(text)
  PROVE  ~Fetches(text, FALSE)
<1>. SUFFICES ASSUME Fetches(text, FALSE) PROVE FALSE
  OBVIOUS
<1>. DEFINE css == Lex(text)
<1>1. PICK i \in DOMAIN css :
        \/ css[i].p \in {"url", "xurl("} /\ IsDangerous(css[i].of)
        \/ css[i].p = "decoy" \/ css[i].spells
        \/ \E j \in 1..(i - 1) : css[j].p = "image-set("
  BY Zenon DEF Fetches
<1>2. \A k \in DOMAIN css : css[k].p \notin {"url", "xurl(", "image-set(", "decoy"} /\ ~css[k].spells
  BY DEF MentionsResource, Range
<1>3. css \in Seq(Pieces)
  BY LexFacts
<1>. HIDE DEF css
<1>4. PICK j \in 1..(i - 1) : css[j].p = "image-set("
  BY <1>1, <1>2, Zenon
<1>5. j \in DOMAIN css
  BY <1>3, LenProperties
<1>. QED  BY <1>2, <1>4, <1>5

LEMMA HoldingIs ==
  ASSUME NEW key, NEW t, NEW entities
  PROVE  LET a == [key |-> key, ref |-> "none", text |-> t]
         IN a.key = key /\ a.ref = "none" /\ a.text = t /\ AttributeValue(a, entities) = t
BY DEF AttributeValue

LEMMA AttributeFacts ==
  ASSUME NEW a, a.text \in Seq(Pieces), NEW entities, IsEntities(entities)
  PROVE  \/ SanitizedAttribute(a, entities) = <<>>
         \/ \E o : SanitizedAttribute(a, entities) = <<o>> /\ GoodAttribute(o) /\ o.text \in Seq(Pieces)
<1>. DEFINE text == AttributeValue(a, entities)
            Hold(t) == [key |-> a.key, ref |-> "none", text |-> t]
<1>1. text \in Seq(Pieces)
  <2>1. Replacement \in Seq(Pieces)
    BY KindsFacts DEF Replacement
  <2>. QED  BY <2>1 DEF AttributeValue, Resolve, IsEntities
<1>2. SanitizedAttribute(a, entities) =
        IF a.key \in {"malformed", "handler", "xml:base"} THEN <<>>
        ELSE IF a.key = "href" /\ IsDangerous(NamedBy(text)) THEN <<>>
        ELSE IF a.key = "style" \/ MentionsResource(text) THEN <<Hold(SanitizeCss(text))>>
        ELSE <<Hold(text)>>
  BY DEF SanitizedAttribute
<1>. HIDE DEF text
<1>3. CASE a.key \in {"malformed", "handler", "xml:base"} \/ (a.key = "href" /\ IsDangerous(NamedBy(text)))
  BY <1>2, <1>3
<1>4. ASSUME a.key \notin {"malformed", "handler", "xml:base"}, ~(a.key = "href" /\ IsDangerous(NamedBy(text))),
             NEW t \in Seq(Pieces), SanitizedAttribute(a, entities) = <<Hold(t)>>,
             ~Fetches(t, a.key = "style"), a.key = "href" => ~IsDangerous(NamedBy(t)),
             a.key = "style" \/ MentionsResource(t) => SanitizeCss(t) = t
      PROVE  \E o : SanitizedAttribute(a, entities) = <<o>> /\ GoodAttribute(o) /\ o.text \in Seq(Pieces)
  <2>. DEFINE o == Hold(t)
  <2>1. o.key = a.key /\ o.ref = "none" /\ o.text = t /\ (\A es : AttributeValue(o, es) = t)
        /\ o = [key |-> o.key, ref |-> "none", text |-> o.text]
    BY HoldingIs
  <2>. HIDE DEF o
  <2>2. ASSUME NEW es PROVE SanitizedAttribute(o, es) = <<o>>
    <3>1. SanitizedAttribute(o, es) =
            IF o.key \in {"malformed", "handler", "xml:base"} THEN <<>>
            ELSE IF o.key = "href" /\ IsDangerous(NamedBy(t)) THEN <<>>
            ELSE IF o.key = "style" \/ MentionsResource(t)
                 THEN <<[key |-> o.key, ref |-> "none", text |-> SanitizeCss(t)]>>
            ELSE <<[key |-> o.key, ref |-> "none", text |-> t]>>
      BY <2>1 DEF SanitizedAttribute
    <3>2. <<[key |-> o.key, ref |-> "none", text |-> t]>> = <<o>>
      BY <2>1
    <3>. QED  BY <1>4, <2>1, <3>1, <3>2
  <2>3. GoodAttribute(o)
    BY <1>4, <2>1, <2>2 DEF GoodAttribute
  <2>. QED  BY <1>4, <2>1, <2>3 DEF o
<1>5. CASE /\ a.key \notin {"malformed", "handler", "xml:base"} /\ ~(a.key = "href" /\ IsDangerous(NamedBy(text)))
           /\ a.key = "style" \/ MentionsResource(text)
  <2>. DEFINE t == SanitizeCss(text)
  <2>1. SanitizedAttribute(a, entities) = <<Hold(t)>>
    BY <1>2, <1>5
  <2>2. t \in Seq(Pieces) /\ SanitizeCss(t) = t /\ (IsDangerous(NamedBy(t)) => IsDangerous(NamedBy(text)))
    BY <1>1, CssFacts
  <2>3. ~Fetches(t, a.key = "style")
    <3>1. (a.key = "style") \in BOOLEAN
      OBVIOUS
    <3>. QED  BY <1>1, <3>1, CssFacts
  <2>. HIDE DEF t
  <2>. QED  BY <1>4, <1>5, <2>1, <2>2, <2>3
<1>6. CASE /\ a.key \notin {"malformed", "handler", "xml:base"} /\ ~(a.key = "href" /\ IsDangerous(NamedBy(text)))
           /\ ~(a.key = "style" \/ MentionsResource(text))
  <2>1. SanitizedAttribute(a, entities) = <<Hold(text)>>
    BY <1>2, <1>6
  <2>2. ~Fetches(text, a.key = "style")
    <3>1. (a.key = "style") = FALSE
      BY <1>6
    <3>2. ~Fetches(text, FALSE)
      BY <1>1, <1>6, UnmentionedIsInert
    <3>. QED  BY ONLY <3>1, <3>2
  <2>. QED  BY <1>1, <1>4, <1>6, <2>1, <2>2
<1>. QED  BY <1>3, <1>5, <1>6

GoodAttributes(attrs) == \E T : attrs \in Seq(T) /\ \A a \in T : GoodAttribute(a)

LEMMA AttributesAreGood ==
  ASSUME NEW S, NEW attrs \in Seq(S), \A a \in S : a.text \in Seq(Pieces),
         NEW entities, IsEntities(entities)
  PROVE  GoodAttributes(SanitizeAttributes(attrs, entities))
<1>. DEFINE F(s) == SanitizeAttributes(s, entities)
            First(a) == SanitizedAttribute(a, entities)[1]
            T == {o \in {First(a) : a \in S} : GoodAttribute(o)}
            X == {s \in Seq(S) : F(s) \in Seq(T)}
<1>1. F(<<>>) = <<>> /\ \A s \in Seq(S), x \in S : F(Append(s, x)) = F(s) \o SanitizedAttribute(x, entities)
  BY AttributesNext
<1>2. ASSUME NEW a \in S PROVE SanitizedAttribute(a, entities) \in Seq(T)
  <2>1. CASE SanitizedAttribute(a, entities) = <<>>
    <3>. HIDE DEF T
    <3>. QED  BY <2>1
  <2>2. CASE \E o : SanitizedAttribute(a, entities) = <<o>> /\ GoodAttribute(o) /\ o.text \in Seq(Pieces)
    <3>1. PICK o : SanitizedAttribute(a, entities) = <<o>> /\ GoodAttribute(o)
      BY <2>2
    <3>2. First(a) = o
      BY <3>1
    <3>3. o \in T
      BY <3>1, <3>2
    <3>. HIDE DEF T
    <3>. QED  BY <3>1, <3>3
  <2>. QED  BY <2>1, <2>2, AttributeFacts
<1>. HIDE DEF F, T
<1>3. <<>> \in X
  <2>1. <<>> \in Seq(S) /\ <<>> \in Seq(T)
    OBVIOUS
  <2>. QED  BY <1>1, <2>1
<1>4. ASSUME NEW s \in Seq(S), NEW x \in S, s \in X PROVE Append(s, x) \in X
  <2>1. Append(s, x) \in Seq(S)
    BY AppendProperties
  <2>2. F(s) \o SanitizedAttribute(x, entities) \in Seq(T)
    BY <1>2, <1>4, ConcatProperties
  <2>. QED  BY <1>1, <2>1, <2>2
<1>. HIDE DEF X
<1>5. Seq(S) \subseteq X
  BY <1>3, <1>4, SeqSet
<1>6. F(attrs) \in Seq(T)
  BY <1>5 DEF X
<1>7. \A a \in T : GoodAttribute(a)
  BY DEF T
<1>. QED  BY <1>6, <1>7 DEF GoodAttributes, F

LEMMA GoodAttributesStay ==
  ASSUME NEW attrs, GoodAttributes(attrs), NEW entities
  PROVE  SanitizeAttributes(attrs, entities) = attrs
<1>1. PICK T : attrs \in Seq(T) /\ \A a \in T : GoodAttribute(a)
  BY DEF GoodAttributes
<1>. DEFINE F(s) == SanitizeAttributes(s, entities)
            X == {s \in Seq(T) : F(s) = s}
<1>2. F(<<>>) = <<>> /\ \A s \in Seq(T), x \in T : F(Append(s, x)) = F(s) \o SanitizedAttribute(x, entities)
  BY AttributesNext
<1>. HIDE DEF F
<1>3. <<>> \in X
  BY <1>2
<1>4. ASSUME NEW s \in Seq(T), NEW x \in T, s \in X PROVE Append(s, x) \in X
  <2>1. Append(s, x) \in Seq(T) /\ s \o <<x>> = Append(s, x)
    BY AppendProperties, AppendIsConcat
  <2>2. SanitizedAttribute(x, entities) = <<x>>
    BY <1>1 DEF GoodAttribute
  <2>. QED  BY <1>2, <1>4, <2>1, <2>2
<1>. HIDE DEF X
<1>5. Seq(T) \subseteq X
  BY <1>3, <1>4, SeqSet
<1>. QED  BY <1>1, <1>5 DEF X, F

-----------------------------------------------------------------------------
(* The event loop *)

PassFields ==
  {"at", "out", "skip", "sheet", "text", "nested", "depth", "count", "open", "entities", "error"}

IsPass(p) == p = [f \in PassFields |-> p[f]]

\* What a step changes of a pass.
SameBut(d, p, changed) == \A f \in PassFields \ changed : d[f] = p[f]

LEMMA Sets ==
  ASSUME NEW p, IsPass(p), NEW f \in PassFields, NEW v, NEW d, d = [p EXCEPT ![f] = v]
  PROVE  IsPass(d) /\ d[f] = v /\ SameBut(d, p, {f})
BY DEF IsPass, SameBut

OpenAfter(acc, e) == IF e.ev = "start" THEN acc.open + 1 ELSE IF e.ev = "end" THEN acc.open - 1 ELSE acc.open

Read(acc, e) == [acc EXCEPT !.open = OpenAfter(acc, e), !.at = @ + 1]

LEMMA ReadIs ==
  ASSUME NEW acc, IsPass(acc), NEW e
  PROVE  /\ IsPass(Read(acc, e)) /\ Read(acc, e).open = OpenAfter(acc, e) /\ Read(acc, e).at = acc.at + 1
         /\ SameBut(Read(acc, e), acc, {"open", "at"})
<1>. DEFINE o == OpenAfter(acc, e)
            b == [acc EXCEPT !.open = o]
            n == acc.at + 1
            c == [b EXCEPT !.at = n]
<1>1. IsPass(b) /\ b.open = o /\ SameBut(b, acc, {"open"})
  <2>. HIDE DEF o
  <2>. QED  BY Sets DEF PassFields
<1>2. Read(acc, e) = c
  BY Zenon DEF Read
<1>. HIDE DEF b
<1>3. IsPass(c) /\ c.at = n /\ SameBut(c, b, {"at"})
  <2>. HIDE DEF n
  <2>. QED  BY <1>1, Sets DEF PassFields
<1>. HIDE DEF c, o, n
<1>4. c.open = b.open
  BY <1>3 DEF SameBut, PassFields
<1>5. SameBut(c, acc, {"open", "at"})
  BY <1>1, <1>3 DEF SameBut
<1>. QED  BY <1>1, <1>2, <1>3, <1>4, <1>5 DEF o, n

LEMMA EventIs ==
  ASSUME NEW acc, NEW e, acc.error = "none", acc.open \in Nat, OpenAfter(acc, e) >= 0
  PROVE  SanitizeEvent(acc, e) = IF acc.skip > 0 THEN SkipEvent(Read(acc, e), e)
                                 ELSE IF acc.sheet THEN StyleEvent(Read(acc, e), e)
                                 ELSE PlainEvent(Read(acc, e), e)
<1>. DEFINE o == CASE e.ev = "start" -> acc.open + 1 [] e.ev = "end" -> acc.open - 1 [] OTHER -> acc.open
<1>1. o = OpenAfter(acc, e)
  BY DEF OpenAfter
<1>2. SanitizeEvent(acc, e) =
        IF acc.error # "none" THEN acc
        ELSE IF o < 0 THEN Refuse(acc, "DecodeFailed")
        ELSE IF acc.skip > 0 THEN SkipEvent([acc EXCEPT !.open = o, !.at = @ + 1], e)
        ELSE IF acc.sheet THEN StyleEvent([acc EXCEPT !.open = o, !.at = @ + 1], e)
        ELSE PlainEvent([acc EXCEPT !.open = o, !.at = @ + 1], e)
  BY DEF SanitizeEvent
<1>3. ~(o < 0)
  <2>1. o \in Int
    BY <1>1 DEF OpenAfter
  <2>. HIDE DEF o
  <2>. QED  BY <1>1, <2>1
<1>4. [acc EXCEPT !.open = o, !.at = @ + 1] = Read(acc, e)
  <2>. HIDE DEF o
  <2>. QED  BY <1>1 DEF Read
<1>. HIDE DEF o
<1>. QED  BY <1>2, <1>3, <1>4, Zenon

-----------------------------------------------------------------------------
(* What an event does, by its class. *)

LEMMA WriteIs ==
  ASSUME NEW a, IsPass(a), NEW x
  PROVE  IsPass(Write(a, x)) /\ Write(a, x).out = Append(a.out, x) /\ SameBut(Write(a, x), a, {"out"})
<1>. DEFINE v == Append(a.out, x)
<1>1. Write(a, x) = [a EXCEPT !.out = v]
  BY Zenon DEF Write
<1>. HIDE DEF v
<1>2. IsPass(Write(a, x)) /\ Write(a, x).out = v /\ SameBut(Write(a, x), a, {"out"})
  BY <1>1, Sets DEF PassFields
<1>. QED  BY <1>2 DEF v

\* An element that is written.
LEMMA ElementWritten ==
  ASSUME NEW a, IsPass(a), NEW e, e.ev \in {"start", "empty"}, e.name \notin {"malformed", "forbidden"},
         a.count \in Nat, a.depth \in Nat, NEW k, k = (IF e.ev = "start" THEN 1 ELSE 0),
         ~(a.count + 1 > MaxElements \/ a.depth + k > MaxNesting),
         NEW y, y = [e EXCEPT !.attrs = SanitizeAttributes(@, a.entities)],
         NEW d, d = PlainEvent(a, e)
  PROVE  /\ IsPass(d) /\ d.out = Append(a.out, y) /\ d.count = a.count + 1 /\ d.depth = a.depth + k
         /\ d.sheet \in BOOLEAN /\ (d.sheet <=> e.ev = "start" /\ e.name = "style") /\ d.nested = 0
         /\ SameBut(d, a, {"out", "count", "depth", "sheet", "nested"})
<1>. DEFINE n == a.count + 1
            h == a.depth + k
            c1 == [a EXCEPT !.count = n]
            c2 == [c1 EXCEPT !.depth = h]
            s == e.ev = "start" /\ e.name = "style"
            c3 == [c2 EXCEPT !.sheet = s]
            c4 == [c3 EXCEPT !.nested = 0]
            counted == [a EXCEPT !.count = @ + 1, !.depth = IF e.ev = "start" THEN @ + 1 ELSE @]
<1>1. IsPass(c1) /\ c1.count = n /\ SameBut(c1, a, {"count"})
  <2>. HIDE DEF n
  <2>. QED  BY Sets DEF PassFields
<1>2. counted = [c1 EXCEPT !.depth = IF e.ev = "start" THEN @ + 1 ELSE @] /\ c1.depth = a.depth
  <2>1. c1.depth = a.depth
    BY <1>1 DEF SameBut, PassFields
  <2>. QED  BY <2>1, Zenon
<1>. HIDE DEF c1
<1>3. (IF e.ev = "start" THEN a.depth + 1 ELSE a.depth) = h
  OBVIOUS
<1>4. counted = c2
  <2>. HIDE DEF counted, h
  <2>. QED  BY <1>2, <1>3
<1>5. IsPass(c2) /\ c2.depth = h /\ SameBut(c2, c1, {"depth"})
  <2>. HIDE DEF h
  <2>. QED  BY <1>1, Sets DEF PassFields
<1>6. c2.count = n
  BY <1>1, <1>5 DEF SameBut, PassFields
<1>7. PlainEvent(a, e) = ElementEvent(a, e)
  BY DEF PlainEvent
<1>8. ElementEvent(a, e) =
        IF counted.count > MaxElements \/ counted.depth > MaxNesting
        THEN Refuse(a, "LimitExceeded")
        ELSE Write([counted EXCEPT !.sheet = s, !.nested = 0], y)
  BY DEF ElementEvent
<1>9. d = Write([c2 EXCEPT !.sheet = s, !.nested = 0], y)
  <2>. HIDE DEF counted, c2, s, n, h
  <2>1. ~(counted.count > MaxElements \/ counted.depth > MaxNesting)
    BY <1>4, <1>5, <1>6 DEF n, h
  <2>. QED  BY <1>4, <1>7, <1>8, <2>1, Zenon
<1>. HIDE DEF c2
<1>10. [c2 EXCEPT !.sheet = s, !.nested = 0] = c4
  <2>. HIDE DEF s
  <2>. QED  OBVIOUS
<1>11. IsPass(c3) /\ c3.sheet = s /\ SameBut(c3, c2, {"sheet"})
  <2>. HIDE DEF s
  <2>. QED  BY <1>5, Sets DEF PassFields
<1>. HIDE DEF c3
<1>12. IsPass(c4) /\ c4.nested = 0 /\ SameBut(c4, c3, {"nested"})
  BY <1>11, Sets DEF PassFields
<1>. HIDE DEF c4, n, h, s
<1>13. IsPass(d) /\ d.out = Append(c4.out, y) /\ SameBut(d, c4, {"out"})
  <2>1. d = Write(c4, y)
    BY ONLY <1>9, <1>10, Zenon
  <2>. QED  BY ONLY <1>12, <2>1, WriteIs
<1>14. SameBut(d, a, {"out", "count", "depth", "sheet", "nested"})
  BY <1>1, <1>5, <1>11, <1>12, <1>13 DEF SameBut
<1>15. c4.out = a.out
  BY <1>1, <1>5, <1>11, <1>12 DEF SameBut, PassFields
<1>16. d.count = n /\ d.depth = h
  BY <1>5, <1>6, <1>11, <1>12, <1>13 DEF SameBut, PassFields
<1>17. d.sheet = s
  <2>1. d.sheet = c3.sheet
    BY <1>12, <1>13 DEF SameBut, PassFields
  <2>. QED  BY <1>11, <2>1, Zenon
<1>18. d.nested = 0
  BY <1>12, <1>13 DEF SameBut, PassFields
<1>19. d.sheet \in BOOLEAN /\ (d.sheet <=> e.ev = "start" /\ e.name = "style")
  BY ONLY <1>17 DEF s
<1>. QED  BY ONLY <1>13, <1>14, <1>15, <1>16, <1>18, <1>19, Zenon DEF n, h

\* The end of an element.
DepthAfterEnd(a) == IF a.depth = 0 THEN 0 ELSE a.depth - 1

LEMMA EndWritten ==
  ASSUME NEW a, IsPass(a), NEW e, e.ev = "end", NEW d, d = PlainEvent(a, e)
  PROVE  /\ IsPass(d) /\ d.out = Append(a.out, e) /\ d.depth = DepthAfterEnd(a)
         /\ SameBut(d, a, {"out", "depth"})
<1>. DEFINE h == DepthAfterEnd(a)
            c == [a EXCEPT !.depth = h]
<1>1. d = Write([a EXCEPT !.depth = IF @ = 0 THEN 0 ELSE @ - 1], e)
  BY DEF PlainEvent
<1>2. [a EXCEPT !.depth = IF @ = 0 THEN 0 ELSE @ - 1] = c
  BY DEF DepthAfterEnd
<1>. HIDE DEF h
<1>3. IsPass(c) /\ c.depth = h /\ SameBut(c, a, {"depth"})
  BY Sets DEF PassFields
<1>. HIDE DEF c
<1>4. d = Write(c, e)
  BY ONLY <1>1, <1>2, Zenon
<1>5. IsPass(d) /\ d.out = Append(c.out, e) /\ SameBut(d, c, {"out"})
  BY ONLY <1>3, <1>4, WriteIs
<1>6. c.out = a.out /\ d.depth = h
  BY <1>3, <1>5 DEF SameBut, PassFields
<1>7. SameBut(d, a, {"out", "depth"})
  BY <1>3, <1>5 DEF SameBut
<1>. QED  BY <1>5, <1>6, <1>7 DEF h

\* A doctype whose entities are taken.
LEMMA DoctypeWritten ==
  ASSUME NEW a, IsPass(a), NEW e, e.ev = "doctype", ~e.unsafe, NEW d, d = PlainEvent(a, e)
  PROVE  /\ IsPass(d) /\ d.out = Append(a.out, e) /\ d.entities = e.entities
         /\ SameBut(d, a, {"out", "entities"})
<1>. DEFINE c == [a EXCEPT !.entities = e.entities]
<1>1. d = Write(c, e)
  BY DEF PlainEvent
<1>2. IsPass(c) /\ c.entities = e.entities /\ SameBut(c, a, {"entities"})
  BY Sets DEF PassFields
<1>. HIDE DEF c
<1>3. IsPass(d) /\ d.out = Append(c.out, e) /\ SameBut(d, c, {"out"})
  BY ONLY <1>1, <1>2, WriteIs
<1>4. c.out = a.out /\ d.entities = c.entities
  BY <1>2, <1>3 DEF SameBut, PassFields
<1>5. SameBut(d, a, {"out", "entities"})
  BY <1>2, <1>3 DEF SameBut
<1>. QED  BY <1>2, <1>3, <1>4, <1>5

\* Text of a stylesheet that is read.
LEMMA SheetText ==
  ASSUME NEW a, IsPass(a), NEW e, e.ev = "text", a.nested = 0, NEW d, d = StyleEvent(a, e)
  PROVE  IsPass(d) /\ d.text = a.text \o e.text /\ SameBut(d, a, {"text"})
<1>. DEFINE v == a.text \o e.text
<1>1. d = [a EXCEPT !.text = @ \o e.text]
  BY DEF StyleEvent
<1>2. d = [a EXCEPT !.text = v]
  BY <1>1, Zenon
<1>. HIDE DEF v
<1>3. IsPass(d) /\ d.text = v /\ SameBut(d, a, {"text"})
  BY <1>2, Sets DEF PassFields
<1>. QED  BY <1>3 DEF v

\* The end of a stylesheet: its text, if any is left, and its end tag.
LEMMA SheetEnds ==
  ASSUME NEW a, IsPass(a), NEW e, e.ev = "end", a.nested = 0, NEW css, css = SanitizeCss(a.text),
         NEW d, d = StyleEvent(a, e)
  PROVE  /\ IsPass(d) /\ d.sheet \in BOOLEAN /\ ~d.sheet /\ d.text = <<>> /\ d.depth = DepthAfterEnd(a)
         /\ css = <<>> => d.out = Append(a.out, e)
         /\ css # <<>> => d.out = Append(Append(a.out, [ev |-> "text", text |-> css]), e)
         /\ SameBut(d, a, {"out", "sheet", "text", "depth"})
<1>. DEFINE h == DepthAfterEnd(a)
            c1 == [a EXCEPT !.sheet = FALSE]
            c2 == [c1 EXCEPT !.text = <<>>]
            c3 == [c2 EXCEPT !.depth = h]
            x == [ev |-> "text", text |-> css]
            closed == [a EXCEPT !.sheet = FALSE, !.text = <<>>, !.depth = IF @ = 0 THEN 0 ELSE @ - 1]
<1>1. d = Write(IF css = <<>> THEN closed ELSE Write(closed, x), e)
  BY DEF StyleEvent
<1>2. IsPass(c1) /\ c1.sheet = FALSE /\ SameBut(c1, a, {"sheet"})
  <2>1. ASSUME NEW v
        PROVE  /\ IsPass([a EXCEPT !.sheet = v]) /\ [a EXCEPT !.sheet = v].sheet = v
               /\ SameBut([a EXCEPT !.sheet = v], a, {"sheet"})
    BY Sets DEF PassFields
  <2>. QED  BY <2>1, Zenon
<1>3. closed = [c1 EXCEPT !.text = <<>>, !.depth = IF @ = 0 THEN 0 ELSE @ - 1]
  BY Zenon
<1>. HIDE DEF c1, closed
<1>4. IsPass(c2) /\ c2.text = <<>> /\ SameBut(c2, c1, {"text"})
  BY <1>2, Sets DEF PassFields
<1>5. closed = [c2 EXCEPT !.depth = IF @ = 0 THEN 0 ELSE @ - 1]
  BY <1>3, Zenon
<1>6. c2.depth = a.depth /\ c2.out = a.out
  BY <1>2, <1>4 DEF SameBut, PassFields
<1>. HIDE DEF c2
<1>7. closed = c3
  BY <1>5, <1>6 DEF DepthAfterEnd
<1>. HIDE DEF h
<1>8. IsPass(c3) /\ c3.depth = h /\ SameBut(c3, c2, {"depth"})
  <2>1. c3 = [c2 EXCEPT !["depth"] = h] /\ "depth" \in PassFields /\ IsPass(c2)
    BY <1>4 DEF PassFields
  <2>. HIDE DEF c3
  <2>2. IsPass(c3) /\ c3["depth"] = h /\ SameBut(c3, c2, {"depth"})
    BY ONLY <2>1 DEF IsPass, SameBut, PassFields
  <2>. QED  BY <2>2
<1>. HIDE DEF c3, x
<1>9. c3.out = a.out
  BY <1>6, <1>8 DEF SameBut, PassFields
<1>. DEFINE c4 == IF css = <<>> THEN c3 ELSE Write(c3, x)
<1>10. /\ IsPass(c4) /\ SameBut(c4, c3, {"out"})
       /\ c4.out = IF css = <<>> THEN a.out ELSE Append(a.out, x)
  <2>1. CASE css = <<>>
    BY <1>8, <1>9, <2>1 DEF SameBut
  <2>2. CASE css # <<>>
    BY <1>8, <1>9, <2>2, WriteIs
  <2>. QED  BY <2>1, <2>2
<1>11. d = Write(c4, e)
  BY ONLY <1>1, <1>7, Zenon
<1>. HIDE DEF c4
<1>12. IsPass(d) /\ d.out = Append(c4.out, e) /\ SameBut(d, c4, {"out"})
  BY ONLY <1>10, <1>11, WriteIs
<1>13. d.depth = h /\ d.text = <<>>
  BY <1>4, <1>8, <1>10, <1>12 DEF SameBut, PassFields
<1>14. d.sheet \in BOOLEAN /\ ~d.sheet
  <2>1. d.sheet = c1.sheet
    BY <1>4, <1>8, <1>10, <1>12 DEF SameBut, PassFields
  <2>2. d.sheet = FALSE
    BY <1>2, <2>1, Zenon
  <2>. QED  BY ONLY <2>2
<1>15. SameBut(d, a, {"out", "sheet", "text", "depth"})
  BY <1>2, <1>4, <1>8, <1>10, <1>12 DEF SameBut
<1>. QED  BY <1>10, <1>12, <1>13, <1>14, <1>15, Zenon DEF h, x

-----------------------------------------------------------------------------
(* The loop's invariant. *)

EndsInStyle(doc) == doc # <<>> /\ doc[Len(doc)].ev = "start" /\ doc[Len(doc)].name = "style"

\* A second pass over what has been written is where the first one is, outside of
\* anything that is dropped.
Mirrors(m, p) ==
  /\ IsPass(m) /\ m.error = "none" /\ m.skip = 0 /\ m.nested = 0 /\ m.text = <<>> /\ m.open = p.depth
  /\ m.out = p.out /\ m.sheet = p.sheet /\ m.depth = p.depth /\ m.count = p.count /\ m.entities = p.entities

Counted(p) ==
  /\ IsPass(p) /\ p.skip \in Nat /\ p.nested \in Nat /\ p.depth \in Nat /\ p.count \in Nat
  /\ p.open = p.depth + p.skip + p.nested /\ (p.sheet \/ p.nested = 0)
  /\ p.sheet \in BOOLEAN /\ p.text \in Seq(Pieces) /\ IsEntities(p.entities)

Written(p) ==
  /\ \E S : p.out \in Seq(S)
  /\ Mirrors(Scanned(p.out), p)
  /\ Inert(p.out) /\ (p.sheet \/ ~EndsInStyle(p.out))

PassOk(p) == p.error = "none" => Counted(p) /\ Written(p)

LEMMA SeqMore ==
  ASSUME NEW S, NEW s \in Seq(S), NEW x
  PROVE  s \in Seq(S \cup {x}) /\ Append(s, x) \in Seq(S \cup {x})
<1>1. s \in Seq(S \cup {x})
  BY SeqMonotonic
<1>. QED  BY <1>1, AppendProperties

InertEvent(x) ==
  /\ x.ev # "pi"
  /\ x.ev \in {"start", "empty"} => x.name # "forbidden" /\ GoodAttributes(x.attrs)

LEMMA InertNext ==
  ASSUME NEW S, NEW doc \in Seq(S), NEW x, Inert(doc), InertEvent(x),
         x.ev = "text" /\ EndsInStyle(doc) => ~Fetches(x.text, TRUE)
  PROVE  Inert(Append(doc, x))
<1>. DEFINE u == Append(doc, x)
            n == Len(doc)
<1>1. /\ n \in Nat /\ DOMAIN u = 1..(n + 1) /\ DOMAIN doc = 1..n /\ u[n + 1] = x /\ \A i \in 1..n : u[i] = doc[i]
  BY SeqMore, LenProperties, AppendProperties
<1>2. n # 0 => doc # <<>>
  OBVIOUS
<1>. HIDE DEF u
<1>3. ASSUME x.ev \in {"start", "empty"}, NEW a \in DOMAIN x.attrs PROVE GoodAttribute(x.attrs[a])
  <2>1. PICK T : x.attrs \in Seq(T) /\ \A o \in T : GoodAttribute(o)
    BY <1>3 DEF InertEvent, GoodAttributes
  <2>. QED  BY <2>1
<1>4. ASSUME NEW i \in DOMAIN u
      PROVE  /\ u[i].ev # "pi"
             /\ u[i].ev \in {"start", "empty"} =>
                  /\ u[i].name # "forbidden"
                  /\ \A a \in DOMAIN u[i].attrs :
                       /\ u[i].attrs[a].key \notin {"handler", "xml:base"}
                       /\ u[i].attrs[a].ref = "none"
                       /\ ~Fetches(u[i].attrs[a].text, u[i].attrs[a].key = "style")
                       /\ u[i].attrs[a].key = "href" => ~IsDangerous(NamedBy(u[i].attrs[a].text))
             /\ u[i].ev = "text" /\ i > 1 /\ u[i - 1].ev = "start" /\ u[i - 1].name = "style" =>
                  ~Fetches(u[i].text, TRUE)
  <2>1. CASE i = n + 1
    <3>1. u[i] = x
      BY <1>1, <2>1
    <3>2. i > 1 => i - 1 = n /\ u[i - 1] = doc[n] /\ doc # <<>>
      BY <1>1, <1>2, <2>1
    <3>3. x.ev = "text" /\ i > 1 /\ u[i - 1].ev = "start" /\ u[i - 1].name = "style" => ~Fetches(x.text, TRUE)
      BY <3>2 DEF EndsInStyle
    <3>. QED  BY <1>3, <3>1, <3>3 DEF InertEvent, GoodAttribute
  <2>2. CASE i # n + 1
    <3>1. i \in DOMAIN doc /\ u[i] = doc[i] /\ (i > 1 => u[i - 1] = doc[i - 1])
      BY <1>1, <2>2
    <3>. QED  BY <3>1, Zenon DEF Inert
  <2>. QED  BY <2>1, <2>2
<1>. QED  BY <1>4, Zenon DEF Inert, u

\* A step that writes nothing.
LEMMA WrittenStays ==
  ASSUME NEW p, Written(p), NEW d, d.out = p.out, d.sheet = p.sheet, d.depth = p.depth, d.count = p.count,
         d.entities = p.entities
  PROVE  Written(d)
BY DEF Written, Mirrors

\* A step that writes one event.
LEMMA WrittenNext ==
  ASSUME NEW p, Written(p), NEW x, NEW d, d.out = Append(p.out, x),
         Mirrors(SanitizeEvent(Scanned(p.out), x), d), InertEvent(x),
         p.sheet => x.ev # "text", d.sheet \/ ~(x.ev = "start" /\ x.name = "style")
  PROVE  Written(d)
<1>1. PICK S : p.out \in Seq(S)
  BY DEF Written
<1>. DEFINE T == S \cup {x}
<1>2. p.out \in Seq(T) /\ x \in T /\ d.out \in Seq(T)
  BY <1>1, SeqMore
<1>3. Scanned(d.out) = SanitizeEvent(Scanned(p.out), x)
  BY <1>2, EventsNext
<1>4. Inert(d.out)
  <2>1. x.ev = "text" => ~EndsInStyle(p.out)
    BY DEF Written
  <2>. QED  BY <1>1, <2>1, InertNext DEF Written
<1>5. d.sheet \/ ~EndsInStyle(d.out)
  <2>1. d.out[Len(d.out)] = x
    BY <1>2, AppendProperties
  <2>. QED  BY <2>1 DEF EndsInStyle
<1>. QED  BY <1>2, <1>3, <1>4, <1>5 DEF Written

LEMMA RefusedOk ==
  ASSUME NEW p, IsPass(p), NEW error, error # "none"
  PROVE  PassOk(Refuse(p, error))
<1>1. Refuse(p, error).error = error
  BY Sets DEF Refuse, PassFields
<1>. QED  BY <1>1 DEF PassOk

\* The pass once an event has been read.
LEMMA ReadFields ==
  ASSUME NEW p, IsPass(p), NEW e, NEW a, a = Read(p, e)
  PROVE  /\ IsPass(a) /\ a.open = OpenAfter(p, e) /\ a.out = p.out /\ a.skip = p.skip /\ a.sheet = p.sheet
         /\ a.text = p.text /\ a.nested = p.nested /\ a.depth = p.depth /\ a.count = p.count
         /\ a.entities = p.entities /\ a.error = p.error
<1>1. /\ IsPass(a) /\ a.open = OpenAfter(p, e) /\ SameBut(a, p, {"open", "at"})
  BY ReadIs
<1>2. \A f \in PassFields \ {"open", "at"} : a[f] = p[f]
  BY <1>1 DEF SameBut
<1>. QED  BY <1>1, <1>2 DEF PassFields

LEMMA SkipStep ==
  ASSUME NEW p, Counted(p), Written(p), p.skip > 0, NEW e, OpenAfter(p, e) >= 0,
         NEW a, a = Read(p, e), NEW d, d = SkipEvent(a, e)
  PROVE  Counted(d) /\ Written(d)
<1>. DEFINE k == IF e.ev = "start" THEN p.skip + 1 ELSE IF e.ev = "end" THEN p.skip - 1 ELSE p.skip
<1>1. /\ IsPass(a) /\ a.open = OpenAfter(p, e) /\ a.out = p.out /\ a.skip = p.skip /\ a.sheet = p.sheet
      /\ a.text = p.text /\ a.nested = p.nested /\ a.depth = p.depth /\ a.count = p.count
      /\ a.entities = p.entities
  <2>1. IsPass(p)
    BY DEF Counted
  <2>. QED  BY ONLY <2>1, a = Read(p, e), ReadFields
<1>2. d = [a EXCEPT !.skip = k]
  BY <1>1 DEF SkipEvent
<1>3. k \in Nat /\ OpenAfter(p, e) = p.depth + k + p.nested
  <2>1. p.skip \in Nat /\ p.nested \in Nat /\ p.depth \in Nat /\ p.open = p.depth + p.skip + p.nested
    BY DEF Counted
  <2>2. OpenAfter(p, e) = IF e.ev = "start" THEN p.open + 1 ELSE IF e.ev = "end" THEN p.open - 1 ELSE p.open
    BY DEF OpenAfter
  <2>. QED  BY ONLY <2>1, <2>2, p.skip > 0
<1>. HIDE DEF k
<1>4. IsPass(d) /\ d.skip = k /\ \A f \in PassFields \ {"skip"} : d[f] = a[f]
  BY <1>1, <1>2, Sets DEF SameBut, PassFields
<1>5. /\ d.open = a.open /\ d.out = a.out /\ d.sheet = a.sheet /\ d.text = a.text /\ d.nested = a.nested
      /\ d.depth = a.depth /\ d.count = a.count /\ d.entities = a.entities
  BY <1>4 DEF PassFields
<1>6. Counted(d)
  BY <1>1, <1>3, <1>4, <1>5 DEF Counted
<1>7. Written(d)
  BY <1>1, <1>5, WrittenStays
<1>. QED  BY <1>6, <1>7

\* Inside a stylesheet: what only moves the count of elements nested in it.
LEMMA SheetNests ==
  ASSUME NEW p, Counted(p), Written(p), p.sheet, NEW e, NEW a, a = Read(p, e),
         NEW k \in Nat, NEW d, d = [a EXCEPT !.nested = k], OpenAfter(p, e) = p.depth + p.skip + k
  PROVE  Counted(d) /\ Written(d)
<1>1. /\ IsPass(a) /\ a.open = OpenAfter(p, e) /\ a.out = p.out /\ a.skip = p.skip /\ a.sheet = p.sheet
      /\ a.text = p.text /\ a.nested = p.nested /\ a.depth = p.depth /\ a.count = p.count
      /\ a.entities = p.entities
  <2>1. IsPass(p)
    BY DEF Counted
  <2>. QED  BY ONLY <2>1, a = Read(p, e), ReadFields
<1>2. IsPass(d) /\ d.nested = k /\ \A f \in PassFields \ {"nested"} : d[f] = a[f]
  <2>1. "nested" \in PassFields
    BY DEF PassFields
  <2>2. IsPass(d) /\ d.nested = k /\ SameBut(d, a, {"nested"})
    <3>1. IsPass(a)
      BY ONLY <1>1
    <3>. QED  BY ONLY <2>1, <3>1, d = [a EXCEPT !.nested = k] DEF PassFields, IsPass, SameBut
  <2>. QED  BY ONLY <2>2 DEF SameBut
<1>3. /\ d.open = a.open /\ d.out = a.out /\ d.sheet = a.sheet /\ d.text = a.text /\ d.skip = a.skip
      /\ d.depth = a.depth /\ d.count = a.count /\ d.entities = a.entities
  BY <1>2 DEF PassFields
<1>4. Counted(d)
  <2>1. d.sheet = p.sheet
    BY ONLY <1>1, <1>3
  <2>2. d.sheet \/ d.nested = 0
    BY ONLY <2>1, p.sheet
  <2>3. d.open = d.depth + d.skip + d.nested
    BY ONLY <1>1, <1>2, <1>3, OpenAfter(p, e) = p.depth + p.skip + k
  <2>. QED  BY <1>1, <1>2, <1>3, <2>1, <2>2, <2>3 DEF Counted
<1>5. Written(d)
  BY <1>1, <1>3, WrittenStays
<1>. QED  BY <1>4, <1>5

\* What only gathers text.
LEMMA SheetGathers ==
  ASSUME NEW p, Counted(p), Written(p), NEW e, NEW a, a = Read(p, e), OpenAfter(p, e) = p.open,
         NEW v \in Seq(Pieces), NEW d, d = [a EXCEPT !.text = v]
  PROVE  Counted(d) /\ Written(d)
<1>1. /\ IsPass(a) /\ a.open = OpenAfter(p, e) /\ a.out = p.out /\ a.skip = p.skip /\ a.sheet = p.sheet
      /\ a.text = p.text /\ a.nested = p.nested /\ a.depth = p.depth /\ a.count = p.count
      /\ a.entities = p.entities
  <2>1. IsPass(p)
    BY DEF Counted
  <2>. QED  BY ONLY <2>1, a = Read(p, e), ReadFields
<1>2. IsPass(d) /\ d.text = v /\ \A f \in PassFields \ {"text"} : d[f] = a[f]
  <2>1. "text" \in PassFields
    BY DEF PassFields
  <2>2. IsPass(d) /\ d.text = v /\ SameBut(d, a, {"text"})
    <3>1. IsPass(a)
      BY ONLY <1>1
    <3>. QED  BY ONLY <2>1, <3>1, d = [a EXCEPT !.text = v] DEF PassFields, IsPass, SameBut
  <2>. QED  BY ONLY <2>2 DEF SameBut
<1>3. /\ d.open = a.open /\ d.out = a.out /\ d.sheet = a.sheet /\ d.nested = a.nested /\ d.skip = a.skip
      /\ d.depth = a.depth /\ d.count = a.count /\ d.entities = a.entities
  BY <1>2 DEF PassFields
<1>4. Counted(d)
  BY <1>1, <1>2, <1>3 DEF Counted
<1>5. Written(d)
  BY <1>1, <1>3, WrittenStays
<1>. QED  BY <1>4, <1>5

\* What changes nothing.
LEMMA NothingDone ==
  ASSUME NEW p, Counted(p), Written(p), NEW e, NEW a, a = Read(p, e), OpenAfter(p, e) = p.open
  PROVE  Counted(a) /\ Written(a)
<1>1. /\ IsPass(a) /\ a.open = OpenAfter(p, e) /\ a.out = p.out /\ a.skip = p.skip /\ a.sheet = p.sheet
      /\ a.text = p.text /\ a.nested = p.nested /\ a.depth = p.depth /\ a.count = p.count
      /\ a.entities = p.entities
  <2>1. IsPass(p)
    BY DEF Counted
  <2>. QED  BY ONLY <2>1, a = Read(p, e), ReadFields
<1>2. Counted(a)
  BY <1>1 DEF Counted
<1>3. Written(a)
  BY <1>1, WrittenStays
<1>. QED  BY <1>2, <1>3

\* The second pass reads what the first one wrote.
LEMMA MirrorReads ==
  ASSUME NEW p, Counted(p), NEW m, Mirrors(m, p), NEW x, NEW b, b = Read(m, x),
         x.ev = "end" => p.depth > 0
  PROVE  /\ IsPass(b) /\ b.out = p.out /\ b.skip = 0 /\ b.sheet = p.sheet /\ b.text = <<>> /\ b.nested = 0
         /\ b.depth = p.depth /\ b.count = p.count /\ b.entities = p.entities /\ b.error = "none"
         /\ b.open = OpenAfter(m, x)
         /\ SanitizeEvent(m, x) = IF p.sheet THEN StyleEvent(b, x) ELSE PlainEvent(b, x)
<1>1. /\ IsPass(m) /\ m.error = "none" /\ m.skip = 0 /\ m.nested = 0 /\ m.text = <<>> /\ m.open = p.depth
      /\ m.out = p.out /\ m.sheet = p.sheet /\ m.depth = p.depth /\ m.count = p.count /\ m.entities = p.entities
      /\ p.depth \in Nat
  BY DEF Mirrors, Counted
<1>2. /\ IsPass(b) /\ b.open = OpenAfter(m, x) /\ b.out = m.out /\ b.skip = m.skip /\ b.sheet = m.sheet
      /\ b.text = m.text /\ b.nested = m.nested /\ b.depth = m.depth /\ b.count = m.count
      /\ b.entities = m.entities /\ b.error = m.error
  BY ONLY <1>1, b = Read(m, x), ReadFields
<1>3. m.open \in Nat /\ OpenAfter(m, x) >= 0
  BY ONLY <1>1, x.ev = "end" => p.depth > 0 DEF OpenAfter
<1>4. SanitizeEvent(m, x) = IF m.skip > 0 THEN SkipEvent(b, x)
                            ELSE IF m.sheet THEN StyleEvent(b, x) ELSE PlainEvent(b, x)
  BY ONLY <1>1, <1>3, b = Read(m, x), EventIs
<1>5. ~(m.skip > 0)
  BY ONLY <1>1
<1>6. SanitizeEvent(m, x) = IF p.sheet THEN StyleEvent(b, x) ELSE PlainEvent(b, x)
  BY ONLY <1>1, <1>4, <1>5, Zenon
<1>. QED  BY ONLY <1>1, <1>2, <1>6, Zenon

\* The end of a stylesheet.
LEMMA SheetStep ==
  ASSUME NEW p, Counted(p), Written(p), p.skip = 0, p.sheet, p.nested = 0, NEW e, e.ev = "end",
         OpenAfter(p, e) >= 0, NEW a, a = Read(p, e), NEW d, d = StyleEvent(a, e)
  PROVE  Counted(d) /\ Written(d)
<1>. DEFINE css == SanitizeCss(p.text)
            t == [ev |-> "text", text |-> css]
            m == Scanned(p.out)
<1>1. /\ p.depth \in Nat /\ p.open = p.depth /\ p.depth > 0 /\ OpenAfter(p, e) = p.depth - 1
      /\ p.text \in Seq(Pieces) /\ IsPass(p) /\ p.count \in Nat /\ IsEntities(p.entities)
  <2>1. p.depth \in Nat /\ p.open = p.depth + 0 + 0 /\ OpenAfter(p, e) = p.open - 1
    BY DEF Counted, OpenAfter
  <2>2. p.text \in Seq(Pieces) /\ IsPass(p) /\ p.count \in Nat /\ IsEntities(p.entities)
    BY DEF Counted
  <2>. QED  BY ONLY <2>1, <2>2, OpenAfter(p, e) >= 0
<1>2. /\ IsPass(a) /\ a.open = OpenAfter(p, e) /\ a.out = p.out /\ a.skip = p.skip /\ a.sheet = p.sheet
      /\ a.text = p.text /\ a.nested = p.nested /\ a.depth = p.depth /\ a.count = p.count
      /\ a.entities = p.entities
  BY ONLY <1>1, a = Read(p, e), ReadFields
<1>3. /\ css \in Seq(Pieces) /\ SanitizeCss(css) = css /\ ~Fetches(css, TRUE)
  BY <1>1, CssFacts
<1>4. SanitizeCss(<<>>) = <<>>
  <2>1. <<>> \in Seq(Pieces)
    OBVIOUS
  <2>. QED  BY ONLY <2>1, CssFacts
<1>. DEFINE Closed(c, b) ==
              /\ IsPass(c) /\ c.sheet \in BOOLEAN /\ ~c.sheet /\ c.text = <<>> /\ c.depth = DepthAfterEnd(b)
              /\ css = <<>> => c.out = Append(b.out, e)
              /\ css # <<>> => c.out = Append(Append(b.out, t), e)
              /\ SameBut(c, b, {"out", "sheet", "text", "depth"})
<1>5. ASSUME NEW b, IsPass(b), b.nested = 0, SanitizeCss(b.text) = css PROVE Closed(StyleEvent(b, e), b)
  <2>. DEFINE c == StyleEvent(b, e)
  <2>. HIDE DEF css
  <2>1. css = SanitizeCss(b.text)
    BY ONLY <1>5
  <2>2. c = StyleEvent(b, e)
    OBVIOUS
  <2>. HIDE DEF c
  <2>3. Closed(c, b)
    BY ONLY <1>5, <2>1, <2>2, e.ev = "end", SheetEnds
  <2>. QED  BY <2>3 DEF c
<1>6. Closed(d, a)
  BY <1>2, <1>5
<1>7. /\ d.open = p.depth - 1 /\ d.skip = 0 /\ d.nested = 0 /\ d.count = p.count /\ d.entities = p.entities
      /\ d.depth = p.depth - 1 /\ d.text = <<>> /\ IsPass(d)
  <2>1. d.open = a.open /\ d.skip = a.skip /\ d.nested = a.nested /\ d.count = a.count /\ d.entities = a.entities
    BY <1>6 DEF SameBut, PassFields
  <2>2. DepthAfterEnd(a) = p.depth - 1
    BY <1>1, <1>2 DEF DepthAfterEnd
  <2>. QED  BY <1>1, <1>2, <1>6, <2>1, <2>2
<1>8. d.sheet \in BOOLEAN /\ ~d.sheet
  BY ONLY <1>6
<1>9. Counted(d)
  <2>1. d.text \in Seq(Pieces)
    BY <1>7
  <2>2. d.depth \in Nat /\ d.open = d.depth + d.skip + d.nested /\ d.skip \in Nat /\ d.nested \in Nat
    BY ONLY <1>1, <1>7
  <2>. QED  BY ONLY <1>1, <1>7, <1>8, <2>1, <2>2 DEF Counted
<1>10. Mirrors(m, p)
  BY DEF Written
<1>. HIDE DEF m, css
<1>11. t.ev = "text" /\ t.text = css
  OBVIOUS
<1>. HIDE DEF t
\* The second pass, up to the end tag.
<1>. DEFINE n == IF css = <<>> THEN m ELSE SanitizeEvent(m, t)
<1>12. /\ IsPass(n) /\ n.error = "none" /\ n.skip = 0 /\ n.nested = 0 /\ n.text = css /\ n.open = p.depth
       /\ n.out = p.out /\ n.sheet = p.sheet /\ n.depth = p.depth /\ n.count = p.count /\ n.entities = p.entities
  <2>1. CASE css = <<>>
    BY <1>10, <2>1 DEF Mirrors
  <2>2. CASE css # <<>>
    <3>. DEFINE b == Read(m, t)
    <3>1. t.ev = "end" => p.depth > 0
      BY <1>11
    <3>b. b = Read(m, t)
      OBVIOUS
    <3>. HIDE DEF b
    <3>2. /\ IsPass(b) /\ b.out = p.out /\ b.skip = 0 /\ b.sheet = p.sheet /\ b.text = <<>> /\ b.nested = 0
          /\ b.depth = p.depth /\ b.count = p.count /\ b.entities = p.entities /\ b.error = "none"
          /\ b.open = OpenAfter(m, t)
          /\ SanitizeEvent(m, t) = IF p.sheet THEN StyleEvent(b, t) ELSE PlainEvent(b, t)
      BY ONLY Counted(p), <1>10, <3>1, <3>b, MirrorReads
    <3>3. OpenAfter(m, t) = p.depth
      BY <1>10, <1>11 DEF OpenAfter, Mirrors
    <3>. HIDE DEF b
    <3>4. n = StyleEvent(b, t)
      BY ONLY <2>2, <3>2, p.sheet, Zenon DEF n
    <3>5. IsPass(n) /\ n.text = b.text \o t.text /\ SameBut(n, b, {"text"})
      BY ONLY <1>11, <3>2, <3>4, SheetText
    <3>. HIDE DEF n
    <3>6. n.text = css
      BY <1>3, <1>11, <3>2, <3>5
    <3>7. /\ n.error = b.error /\ n.skip = b.skip /\ n.nested = b.nested /\ n.open = b.open /\ n.out = b.out
          /\ n.sheet = b.sheet /\ n.depth = b.depth /\ n.count = b.count /\ n.entities = b.entities
      BY ONLY <3>5 DEF SameBut, PassFields
    <3>. QED  BY ONLY <3>2, <3>3, <3>5, <3>6, <3>7
  <2>. QED  BY <2>1, <2>2
<1>. HIDE DEF n
<1>. DEFINE c == SanitizeEvent(n, e)
            b == Read(n, e)
<1>13. /\ IsPass(b) /\ b.out = p.out /\ b.skip = 0 /\ b.text = css /\ b.nested = 0
       /\ b.depth = p.depth /\ b.count = p.count /\ b.entities = p.entities /\ b.error = "none"
       /\ b.open = p.depth - 1
  <2>1. OpenAfter(n, e) = p.depth - 1
    BY <1>12 DEF OpenAfter
  <2>. QED  BY ONLY <1>12, <2>1, ReadFields
<1>14. c = StyleEvent(b, e)
  <2>1. n.open \in Nat /\ OpenAfter(n, e) >= 0
    BY <1>1, <1>12 DEF OpenAfter
  <2>2. c = IF n.skip > 0 THEN SkipEvent(b, e) ELSE IF n.sheet THEN StyleEvent(b, e) ELSE PlainEvent(b, e)
    BY ONLY <1>12, <2>1, EventIs
  <2>3. ~(n.skip > 0) /\ n.sheet
    BY <1>12
  <2>. HIDE DEF c, b
  <2>. QED  BY ONLY <2>2, <2>3, Zenon
<1>. HIDE DEF b, c
<1>15. Closed(c, b)
  <2>1. SanitizeCss(b.text) = css
    BY <1>3, <1>13
  <2>. QED  BY <1>5, <1>13, <1>14, <2>1
<1>16. Mirrors(c, d)
  <2>1. /\ c.error = b.error /\ c.skip = b.skip /\ c.nested = b.nested /\ c.open = b.open
        /\ c.count = b.count /\ c.entities = b.entities
    BY ONLY <1>15 DEF SameBut, PassFields
  <2>2. c.depth = p.depth - 1
    BY <1>1, <1>13, <1>15 DEF DepthAfterEnd
  <2>3. c.out = d.out
    BY ONLY <1>2, <1>6, <1>13, <1>15
  <2>4. c.sheet = d.sheet /\ c.text = <<>> /\ IsPass(c)
    BY ONLY <1>6, <1>15
  <2>. QED  BY ONLY <1>7, <1>13, <2>1, <2>2, <2>3, <2>4 DEF Mirrors
<1>17. PICK S : p.out \in Seq(S)
  BY DEF Written
<1>. DEFINE o == IF css = <<>> THEN p.out ELSE Append(p.out, t)
            T == S \cup {t}
<1>18. p.out \in Seq(T) /\ o \in Seq(T) /\ t \in T
  BY <1>17, SeqMore
<1>19. Inert(o)
  <2>1. InertEvent(t)
    BY <1>11 DEF InertEvent
  <2>. QED  BY <1>3, <1>11, <1>17, <2>1, InertNext DEF Written
<1>20. Scanned(o) = n
  BY <1>18, EventsNext DEF n, m
<1>21. d.out = Append(o, e)
  BY <1>2, <1>6
<1>. HIDE DEF o, T
<1>. DEFINE U == T \cup {e}
<1>22. o \in Seq(U) /\ e \in U /\ d.out \in Seq(U)
  BY <1>18, <1>21, SeqMore
<1>23. Scanned(d.out) = c
  BY <1>20, <1>21, <1>22, EventsNext DEF c
<1>24. Inert(d.out)
  <2>1. InertEvent(e)
    BY DEF InertEvent
  <2>. QED  BY <1>18, <1>19, <1>21, <2>1, InertNext
<1>25. ~EndsInStyle(d.out)
  <2>1. d.out[Len(d.out)] = e
    BY <1>21, <1>22, AppendProperties
  <2>. QED  BY <2>1 DEF EndsInStyle
<1>26. Written(d)
  BY <1>16, <1>22, <1>23, <1>24, <1>25 DEF Written
<1>. QED  BY <1>9, <1>26

LEMMA StyleStep ==
  ASSUME NEW p, Counted(p), Written(p), p.skip = 0, p.sheet, NEW e, IsEvent(e), OpenAfter(p, e) >= 0,
         NEW a, a = Read(p, e), NEW d, d = StyleEvent(a, e)
  PROVE  Counted(d) /\ Written(d)
<1>1. /\ p.nested \in Nat /\ p.depth \in Nat /\ p.open = p.depth + p.skip + p.nested /\ p.text \in Seq(Pieces)
      /\ IsEntities(p.entities) /\ IsPass(p)
  BY DEF Counted
<1>2. a.nested = p.nested /\ a.text = p.text /\ a.entities = p.entities
  BY ONLY <1>1, a = Read(p, e), ReadFields
<1>3. OpenAfter(p, e) = IF e.ev = "start" THEN p.open + 1 ELSE IF e.ev = "end" THEN p.open - 1 ELSE p.open
  BY DEF OpenAfter
<1>4. CASE e.ev = "start"
  <2>. DEFINE k == p.nested + 1
  <2>1. d = [a EXCEPT !.nested = k]
    BY <1>2, <1>4 DEF StyleEvent
  <2>2. k \in Nat /\ OpenAfter(p, e) = p.depth + p.skip + k
    BY ONLY <1>1, <1>3, <1>4, p.skip = 0
  <2>. HIDE DEF k
  <2>. QED  BY ONLY Counted(p), Written(p), p.sheet, a = Read(p, e), <2>1, <2>2, SheetNests
<1>5. CASE e.ev = "end" /\ p.nested > 0
  <2>. DEFINE k == p.nested - 1
  <2>1. d = [a EXCEPT !.nested = k]
    BY <1>2, <1>5 DEF StyleEvent
  <2>2. k \in Nat /\ OpenAfter(p, e) = p.depth + p.skip + k
    BY ONLY <1>1, <1>3, <1>5, p.skip = 0
  <2>. HIDE DEF k
  <2>. QED  BY ONLY Counted(p), Written(p), p.sheet, a = Read(p, e), <2>1, <2>2, SheetNests
<1>6. CASE e.ev = "end" /\ p.nested = 0
  BY <1>6, SheetStep
<1>7. CASE e.ev \in {"text", "ref"} /\ p.nested = 0
  <2>. DEFINE w == IF e.ev = "text" THEN e.text
                   ELSE IF e.name = "char" THEN <<Word>> ELSE Resolve(p.entities, e.name)
              v == p.text \o w
  <2>1. d = [a EXCEPT !.text = v]
    BY <1>2, <1>7 DEF StyleEvent
  <2>2. w \in Seq(Pieces)
    <3>1. <<Word>> \in Seq(Pieces) /\ Replacement \in Seq(Pieces)
      BY KindsFacts DEF Replacement
    <3>. QED  BY <1>1, <1>7, <3>1 DEF IsEvent, Resolve, IsEntities
  <2>3. v \in Seq(Pieces)
    <3>. HIDE DEF w
    <3>. QED  BY <1>1, <2>2, ConcatProperties
  <2>4. OpenAfter(p, e) = p.open
    BY <1>3, <1>7
  <2>. HIDE DEF v
  <2>. QED  BY ONLY Counted(p), Written(p), a = Read(p, e), <2>1, <2>3, <2>4, SheetGathers
<1>8. CASE e.ev \notin {"start", "end"} /\ ~(e.ev \in {"text", "ref"} /\ p.nested = 0)
  <2>1. d = a
    BY <1>2, <1>8 DEF StyleEvent
  <2>2. OpenAfter(p, e) = p.open
    BY <1>3, <1>8
  <2>. QED  BY <2>1, <2>2, NothingDone
<1>. QED  BY <1>1, <1>4, <1>5, <1>6, <1>7, <1>8

\* One event that is written in plain content, and what a second pass makes of it.
LEMMA PlainWrites ==
  ASSUME NEW p, Counted(p), Written(p), p.skip = 0, ~p.sheet, NEW e, NEW a, a = Read(p, e),
         OpenAfter(p, e) = p.open,
         NEW x, x.ev \notin {"start", "empty", "end", "pi", "doctype"}, x.ev = "ref" => x.name = "char",
         NEW d, d = Write(a, x)
  PROVE  Counted(d) /\ Written(d)
<1>. DEFINE m == Scanned(p.out)
            b == Read(m, x)
            c == Write(b, x)
<1>1. Counted(a) /\ Written(a) /\ IsPass(a)
  BY NothingDone DEF Counted
<1>2. /\ a.out = p.out /\ a.skip = p.skip /\ a.sheet = p.sheet /\ a.depth = p.depth /\ a.count = p.count
      /\ a.entities = p.entities
  <2>1. IsPass(p)
    BY DEF Counted
  <2>. QED  BY ONLY <2>1, a = Read(p, e), ReadFields
<1>3. IsPass(d) /\ d.out = Append(a.out, x) /\ SameBut(d, a, {"out"})
  BY ONLY <1>1, d = Write(a, x), WriteIs
<1>4. /\ d.open = a.open /\ d.skip = a.skip /\ d.sheet = a.sheet /\ d.text = a.text /\ d.nested = a.nested
      /\ d.depth = a.depth /\ d.count = a.count /\ d.entities = a.entities
  BY ONLY <1>3 DEF SameBut, PassFields
<1>5. Counted(d)
  BY ONLY <1>1, <1>3, <1>4 DEF Counted
<1>6. Mirrors(m, p)
  BY DEF Written
<1>. HIDE DEF m
<1>7. /\ IsPass(b) /\ b.out = p.out /\ b.skip = 0 /\ b.sheet = p.sheet /\ b.text = <<>> /\ b.nested = 0
      /\ b.depth = p.depth /\ b.count = p.count /\ b.entities = p.entities /\ b.error = "none"
      /\ b.open = OpenAfter(m, x)
      /\ SanitizeEvent(m, x) = IF p.sheet THEN StyleEvent(b, x) ELSE PlainEvent(b, x)
  <2>1. x.ev = "end" => p.depth > 0
    OBVIOUS
  <2>2. b = Read(m, x)
    OBVIOUS
  <2>. HIDE DEF b
  <2>. QED  BY ONLY Counted(p), <1>6, <2>1, <2>2, MirrorReads
<1>8. b.open = p.depth
  BY <1>6, <1>7 DEF OpenAfter, Mirrors
<1>. HIDE DEF b
<1>9. PlainEvent(b, x) = c
  BY DEF PlainEvent
<1>10. SanitizeEvent(m, x) = c
  BY ONLY <1>7, <1>9, ~p.sheet, Zenon
<1>11. IsPass(c) /\ c.out = Append(b.out, x) /\ SameBut(c, b, {"out"})
  BY ONLY <1>7, WriteIs
<1>. HIDE DEF c
<1>12. /\ c.open = b.open /\ c.skip = b.skip /\ c.sheet = b.sheet /\ c.text = b.text /\ c.nested = b.nested
       /\ c.depth = b.depth /\ c.count = b.count /\ c.entities = b.entities /\ c.error = b.error
  BY ONLY <1>11 DEF SameBut, PassFields
<1>13. Mirrors(c, d)
  BY ONLY <1>2, <1>3, <1>4, <1>7, <1>8, <1>11, <1>12 DEF Mirrors
<1>14. d.out = Append(p.out, x) /\ Mirrors(SanitizeEvent(Scanned(p.out), x), d)
  BY ONLY <1>2, <1>3, <1>10, <1>13 DEF m
<1>15. InertEvent(x) /\ ~(x.ev = "start" /\ x.name = "style")
  BY DEF InertEvent
<1>16. Written(d)
  BY ONLY Written(p), ~p.sheet, <1>14, <1>15, WrittenNext
<1>. QED  BY <1>5, <1>16

\* The end of an element in plain content.
LEMMA EndStep ==
  ASSUME NEW p, Counted(p), Written(p), p.skip = 0, ~p.sheet, NEW e, e.ev = "end", OpenAfter(p, e) >= 0,
         NEW a, a = Read(p, e), NEW d, d = PlainEvent(a, e)
  PROVE  Counted(d) /\ Written(d)
<1>. DEFINE m == Scanned(p.out)
            b == Read(m, e)
            c == PlainEvent(b, e)
<1>1. /\ p.nested = 0 /\ p.depth \in Nat /\ p.open = p.depth /\ p.depth > 0 /\ OpenAfter(p, e) = p.depth - 1
      /\ p.text \in Seq(Pieces) /\ IsPass(p) /\ p.count \in Nat /\ IsEntities(p.entities) /\ p.sheet \in BOOLEAN
  <2>1. /\ p.nested = 0 /\ p.depth \in Nat /\ p.open = p.depth + p.skip + p.nested /\ OpenAfter(p, e) = p.open - 1
    BY DEF Counted, OpenAfter
  <2>2. /\ p.text \in Seq(Pieces) /\ IsPass(p) /\ p.count \in Nat /\ IsEntities(p.entities)
        /\ p.sheet \in BOOLEAN
    BY DEF Counted
  <2>. QED  BY ONLY <2>1, <2>2, p.skip = 0, OpenAfter(p, e) >= 0
<1>2. /\ IsPass(a) /\ a.open = OpenAfter(p, e) /\ a.out = p.out /\ a.skip = p.skip /\ a.sheet = p.sheet
      /\ a.text = p.text /\ a.nested = p.nested /\ a.depth = p.depth /\ a.count = p.count
      /\ a.entities = p.entities
  BY ONLY <1>1, a = Read(p, e), ReadFields
<1>3. IsPass(d) /\ d.out = Append(a.out, e) /\ d.depth = DepthAfterEnd(a) /\ SameBut(d, a, {"out", "depth"})
  BY ONLY <1>2, e.ev = "end", d = PlainEvent(a, e), EndWritten
<1>4. /\ d.open = a.open /\ d.skip = a.skip /\ d.sheet = a.sheet /\ d.text = a.text /\ d.nested = a.nested
      /\ d.count = a.count /\ d.entities = a.entities
  BY ONLY <1>3 DEF SameBut, PassFields
<1>5. d.depth = p.depth - 1 /\ d.depth \in Nat /\ d.open = d.depth
  BY ONLY <1>1, <1>2, <1>3, <1>4 DEF DepthAfterEnd
<1>6. Counted(d)
  BY ONLY <1>1, <1>2, <1>3, <1>4, <1>5, p.skip = 0 DEF Counted
<1>7. Mirrors(m, p)
  BY DEF Written
<1>. HIDE DEF m
<1>8. /\ IsPass(b) /\ b.out = p.out /\ b.skip = 0 /\ b.sheet = p.sheet /\ b.text = <<>> /\ b.nested = 0
      /\ b.depth = p.depth /\ b.count = p.count /\ b.entities = p.entities /\ b.error = "none"
      /\ b.open = OpenAfter(m, e)
      /\ SanitizeEvent(m, e) = IF p.sheet THEN StyleEvent(b, e) ELSE PlainEvent(b, e)
  <2>1. b = Read(m, e)
    OBVIOUS
  <2>. HIDE DEF b
  <2>. QED  BY ONLY Counted(p), <1>1, <1>7, <2>1, MirrorReads
<1>9. b.open = p.depth - 1
  BY <1>7, <1>8 DEF OpenAfter, Mirrors
<1>. HIDE DEF b
<1>10. SanitizeEvent(m, e) = c
  BY ONLY <1>8, ~p.sheet, Zenon DEF c
<1>11. IsPass(c) /\ c.out = Append(b.out, e) /\ c.depth = DepthAfterEnd(b) /\ SameBut(c, b, {"out", "depth"})
  BY ONLY <1>8, e.ev = "end", EndWritten
<1>. HIDE DEF c
<1>12. /\ c.open = b.open /\ c.skip = b.skip /\ c.sheet = b.sheet /\ c.text = b.text /\ c.nested = b.nested
       /\ c.count = b.count /\ c.entities = b.entities /\ c.error = b.error
  BY ONLY <1>11 DEF SameBut, PassFields
<1>13. c.depth = p.depth - 1
  BY ONLY <1>1, <1>8, <1>11 DEF DepthAfterEnd
<1>14. Mirrors(c, d)
  BY ONLY <1>2, <1>3, <1>4, <1>5, <1>8, <1>9, <1>11, <1>12, <1>13 DEF Mirrors
<1>15. d.out = Append(p.out, e) /\ Mirrors(SanitizeEvent(Scanned(p.out), e), d)
  BY ONLY <1>2, <1>3, <1>10, <1>14 DEF m
<1>16. InertEvent(e) /\ ~(e.ev = "start" /\ e.name = "style")
  BY DEF InertEvent
<1>17. Written(d)
  BY ONLY Written(p), ~p.sheet, <1>15, <1>16, WrittenNext
<1>. QED  BY <1>6, <1>17

LEMMA DoctypeStep ==
  ASSUME NEW p, Counted(p), Written(p), p.skip = 0, ~p.sheet, NEW e, IsEvent(e), e.ev = "doctype", ~e.unsafe,
         NEW a, a = Read(p, e), NEW d, d = PlainEvent(a, e)
  PROVE  Counted(d) /\ Written(d)
<1>. DEFINE m == Scanned(p.out)
            b == Read(m, e)
            c == PlainEvent(b, e)
<1>0. OpenAfter(p, e) = p.open
  BY DEF OpenAfter
<1>1. Counted(a) /\ IsPass(a)
  BY <1>0, NothingDone DEF Counted
<1>2. /\ a.out = p.out /\ a.skip = p.skip /\ a.sheet = p.sheet /\ a.depth = p.depth /\ a.count = p.count
  <2>1. IsPass(p)
    BY DEF Counted
  <2>. QED  BY ONLY <2>1, a = Read(p, e), ReadFields
<1>3. IsPass(d) /\ d.out = Append(a.out, e) /\ d.entities = e.entities /\ SameBut(d, a, {"out", "entities"})
  BY ONLY <1>1, e.ev = "doctype", ~e.unsafe, d = PlainEvent(a, e), DoctypeWritten
<1>4. /\ d.open = a.open /\ d.skip = a.skip /\ d.sheet = a.sheet /\ d.text = a.text /\ d.nested = a.nested
      /\ d.depth = a.depth /\ d.count = a.count
  BY ONLY <1>3 DEF SameBut, PassFields
<1>5. Counted(d)
  <2>1. IsEntities(d.entities)
    BY <1>3 DEF IsEvent
  <2>. QED  BY ONLY <1>1, <1>3, <1>4, <2>1 DEF Counted
<1>6. Mirrors(m, p)
  BY DEF Written
<1>. HIDE DEF m
<1>7. /\ IsPass(b) /\ b.out = p.out /\ b.skip = 0 /\ b.sheet = p.sheet /\ b.text = <<>> /\ b.nested = 0
      /\ b.depth = p.depth /\ b.count = p.count /\ b.entities = p.entities /\ b.error = "none"
      /\ b.open = OpenAfter(m, e)
      /\ SanitizeEvent(m, e) = IF p.sheet THEN StyleEvent(b, e) ELSE PlainEvent(b, e)
  <2>1. e.ev = "end" => p.depth > 0
    OBVIOUS
  <2>2. b = Read(m, e)
    OBVIOUS
  <2>. HIDE DEF b
  <2>. QED  BY ONLY Counted(p), <1>6, <2>1, <2>2, MirrorReads
<1>8. b.open = p.depth
  BY <1>6, <1>7 DEF OpenAfter, Mirrors
<1>. HIDE DEF b
<1>9. SanitizeEvent(m, e) = c
  BY ONLY <1>7, ~p.sheet, Zenon DEF c
<1>10. IsPass(c) /\ c.out = Append(b.out, e) /\ c.entities = e.entities /\ SameBut(c, b, {"out", "entities"})
  BY ONLY <1>7, e.ev = "doctype", ~e.unsafe, DoctypeWritten
<1>. HIDE DEF c
<1>11. /\ c.open = b.open /\ c.skip = b.skip /\ c.sheet = b.sheet /\ c.text = b.text /\ c.nested = b.nested
       /\ c.depth = b.depth /\ c.count = b.count /\ c.error = b.error
  BY ONLY <1>10 DEF SameBut, PassFields
<1>12. Mirrors(c, d)
  BY ONLY <1>2, <1>3, <1>4, <1>7, <1>8, <1>10, <1>11 DEF Mirrors
<1>13. d.out = Append(p.out, e) /\ Mirrors(SanitizeEvent(Scanned(p.out), e), d)
  BY ONLY <1>2, <1>3, <1>9, <1>12 DEF m
<1>14. InertEvent(e) /\ ~(e.ev = "start" /\ e.name = "style")
  BY DEF InertEvent
<1>15. Written(d)
  BY ONLY Written(p), ~p.sheet, <1>13, <1>14, WrittenNext
<1>. QED  BY <1>5, <1>15

\* An element that is written is written again as it is.
LEMMA ElementStep ==
  ASSUME NEW p, Counted(p), Written(p), p.skip = 0, ~p.sheet, NEW e, IsEvent(e),
         e.ev \in {"start", "empty"}, e.name \notin {"malformed", "forbidden"},
         NEW k, k = (IF e.ev = "start" THEN 1 ELSE 0),
         ~(p.count + 1 > MaxElements \/ p.depth + k > MaxNesting),
         NEW a, a = Read(p, e), NEW d, d = PlainEvent(a, e)
  PROVE  Counted(d) /\ Written(d)
<1>. DEFINE m == Scanned(p.out)
            good == SanitizeAttributes(e.attrs, p.entities)
            y == [e EXCEPT !.attrs = SanitizeAttributes(@, a.entities)]
            b == Read(m, y)
            c == PlainEvent(b, y)
<1>1. /\ p.nested = 0 /\ p.depth \in Nat /\ p.open = p.depth /\ OpenAfter(p, e) = p.depth + k /\ k \in Nat
      /\ p.text \in Seq(Pieces) /\ IsPass(p) /\ p.count \in Nat /\ IsEntities(p.entities) /\ p.sheet \in BOOLEAN
  <2>1. /\ p.nested = 0 /\ p.depth \in Nat /\ p.open = p.depth + p.skip + p.nested /\ k \in Nat
        /\ OpenAfter(p, e) = IF e.ev = "start" THEN p.open + 1 ELSE p.open
    BY DEF Counted, OpenAfter
  <2>2. /\ p.text \in Seq(Pieces) /\ IsPass(p) /\ p.count \in Nat /\ IsEntities(p.entities)
        /\ p.sheet \in BOOLEAN
    BY DEF Counted
  <2>. QED  BY ONLY <2>1, <2>2, p.skip = 0, k = (IF e.ev = "start" THEN 1 ELSE 0)
<1>2. /\ IsPass(a) /\ a.open = OpenAfter(p, e) /\ a.out = p.out /\ a.skip = p.skip /\ a.sheet = p.sheet
      /\ a.text = p.text /\ a.nested = p.nested /\ a.depth = p.depth /\ a.count = p.count
      /\ a.entities = p.entities
  BY ONLY <1>1, a = Read(p, e), ReadFields
<1>3. GoodAttributes(good)
  <2>1. e.attrs \in Seq(Range(e.attrs)) /\ \A attr \in Range(e.attrs) : attr.text \in Seq(Pieces)
    BY DEF IsEvent
  <2>. QED  BY ONLY <1>1, <2>1, AttributesAreGood
<1>4. e = [ev |-> e.ev, name |-> e.name, attrs |-> e.attrs]
  BY DEF IsEvent
<1>. HIDE DEF good
<1>5. y = [e EXCEPT !.attrs = good]
  BY ONLY <1>2 DEF good
<1>6. y.ev = e.ev /\ y.name = e.name /\ y.attrs = good /\ \A v : v = y.attrs => [y EXCEPT !.attrs = v] = y
  <2>1. y = [ev |-> e.ev, name |-> e.name, attrs |-> good]
    BY ONLY <1>4, <1>5
  <2>. HIDE DEF y
  <2>. QED  BY ONLY <2>1
<1>7. /\ IsPass(d) /\ d.out = Append(a.out, y) /\ d.count = a.count + 1 /\ d.depth = a.depth + k
      /\ d.sheet \in BOOLEAN /\ (d.sheet <=> e.ev = "start" /\ e.name = "style") /\ d.nested = 0
      /\ SameBut(d, a, {"out", "count", "depth", "sheet", "nested"})
  <2>1. a.count \in Nat /\ a.depth \in Nat /\ ~(a.count + 1 > MaxElements \/ a.depth + k > MaxNesting)
    BY ONLY <1>1, <1>2, ~(p.count + 1 > MaxElements \/ p.depth + k > MaxNesting)
  <2>2. IsPass(a)
    BY ONLY <1>2
  <2>3. y = [e EXCEPT !.attrs = SanitizeAttributes(@, a.entities)]
    OBVIOUS
  <2>. HIDE DEF y
  <2>. QED  BY ONLY <2>1, <2>2, <2>3, e.ev \in {"start", "empty"}, e.name \notin {"malformed", "forbidden"},
                    k = (IF e.ev = "start" THEN 1 ELSE 0), d = PlainEvent(a, e), ElementWritten
<1>. HIDE DEF y
<1>9. d.open = a.open /\ d.skip = a.skip /\ d.text = a.text /\ d.entities = a.entities
  BY ONLY <1>7 DEF SameBut, PassFields
<1>10. d.open = p.depth + k /\ d.depth = p.depth + k /\ d.count = p.count + 1 /\ d.skip = 0
       /\ d.text = p.text /\ d.entities = p.entities
  BY ONLY <1>1, <1>2, <1>7, <1>9, p.skip = 0
<1>11. Counted(d)
  <2>1. /\ d.depth \in Nat /\ d.count \in Nat /\ d.nested \in Nat /\ d.skip \in Nat
        /\ d.open = d.depth + d.skip + d.nested /\ d.nested = 0
    <3>1. d.nested = 0
      BY ONLY <1>7
    <3>. QED  BY ONLY <1>1, <1>10, <3>1
  <2>2. d.sheet \in BOOLEAN
    BY ONLY <1>7
  <2>3. IsPass(d) /\ d.text \in Seq(Pieces) /\ IsEntities(d.entities)
    BY ONLY <1>1, <1>7, <1>10
  <2>. QED  BY ONLY <2>1, <2>2, <2>3 DEF Counted
<1>12. Mirrors(m, p)
  BY DEF Written
<1>. HIDE DEF m
<1>13. /\ IsPass(b) /\ b.out = p.out /\ b.skip = 0 /\ b.sheet = p.sheet /\ b.text = <<>> /\ b.nested = 0
       /\ b.depth = p.depth /\ b.count = p.count /\ b.entities = p.entities /\ b.error = "none"
       /\ b.open = OpenAfter(m, y)
       /\ SanitizeEvent(m, y) = IF p.sheet THEN StyleEvent(b, y) ELSE PlainEvent(b, y)
  <2>1. y.ev = "end" => p.depth > 0
    BY <1>6
  <2>2. b = Read(m, y)
    OBVIOUS
  <2>. HIDE DEF b
  <2>. QED  BY ONLY Counted(p), <1>12, <2>1, <2>2, MirrorReads
<1>14. b.open = p.depth + k
  <2>1. m.open = p.depth
    BY <1>12 DEF Mirrors
  <2>. QED  BY <1>1, <1>6, <1>13, <2>1 DEF OpenAfter
<1>. HIDE DEF b
<1>15. SanitizeEvent(m, y) = c
  BY ONLY <1>13, ~p.sheet, Zenon DEF c
<1>. DEFINE z == [y EXCEPT !.attrs = SanitizeAttributes(@, b.entities)]
<1>16. /\ IsPass(c) /\ c.out = Append(b.out, z) /\ c.count = b.count + 1 /\ c.depth = b.depth + k
       /\ c.sheet \in BOOLEAN /\ (c.sheet <=> y.ev = "start" /\ y.name = "style") /\ c.nested = 0
       /\ SameBut(c, b, {"out", "count", "depth", "sheet", "nested"})
  <2>1. b.count \in Nat /\ b.depth \in Nat /\ ~(b.count + 1 > MaxElements \/ b.depth + k > MaxNesting)
    BY ONLY <1>1, <1>13, ~(p.count + 1 > MaxElements \/ p.depth + k > MaxNesting)
  <2>2. IsPass(b)
    BY ONLY <1>13
  <2>3. /\ y.ev \in {"start", "empty"} /\ y.name \notin {"malformed", "forbidden"}
        /\ k = (IF y.ev = "start" THEN 1 ELSE 0)
    BY ONLY <1>6, e.ev \in {"start", "empty"}, e.name \notin {"malformed", "forbidden"},
            k = (IF e.ev = "start" THEN 1 ELSE 0)
  <2>4. c = PlainEvent(b, y)
    OBVIOUS
  <2>5. z = [y EXCEPT !.attrs = SanitizeAttributes(@, b.entities)]
    OBVIOUS
  <2>. HIDE DEF c, z
  <2>. QED  BY ONLY <2>1, <2>2, <2>3, <2>4, <2>5, ElementWritten
<1>. HIDE DEF c
<1>17. c.out = Append(b.out, y)
  <2>. DEFINE v == SanitizeAttributes(y.attrs, b.entities)
  <2>1. v = y.attrs
    BY ONLY <1>3, <1>6, GoodAttributesStay
  <2>2. [y EXCEPT !.attrs = v] = y
    BY ONLY <1>6, <2>1
  <2>3. z = y
    BY ONLY <2>2, Zenon
  <2>. HIDE DEF v, z
  <2>. QED  BY ONLY <1>16, <2>3
<1>. HIDE DEF z
<1>18. c.sheet = d.sheet
  BY ONLY <1>6, <1>7, <1>16
<1>19. /\ c.open = b.open /\ c.skip = b.skip /\ c.text = b.text /\ c.entities = b.entities /\ c.error = b.error
  <2>1. SameBut(c, b, {"out", "count", "depth", "sheet", "nested"})
    BY ONLY <1>16
  <2>. QED  BY ONLY <2>1 DEF SameBut, PassFields
<1>20. Mirrors(c, d)
  <2>1. c.sheet = d.sheet
    BY ONLY <1>18
  <2>2. c.count = b.count + 1 /\ c.depth = b.depth + k /\ c.nested = 0 /\ IsPass(c)
    BY ONLY <1>16
  <2>3. d.out = Append(a.out, y)
    BY ONLY <1>7
  <2>. QED  BY ONLY <1>2, <1>10, <1>13, <1>14, <1>17, <1>19, <2>1, <2>2, <2>3 DEF Mirrors
<1>21. d.out = Append(p.out, y) /\ Mirrors(SanitizeEvent(Scanned(p.out), y), d)
  BY ONLY <1>2, <1>7, <1>15, <1>20 DEF m
<1>22. InertEvent(y)
  BY <1>3, <1>6 DEF InertEvent
<1>23. d.sheet \/ ~(y.ev = "start" /\ y.name = "style")
  BY ONLY <1>6, <1>7
<1>24. Written(d)
  BY ONLY Written(p), ~p.sheet, <1>21, <1>22, <1>23, WrittenNext
<1>. QED  BY <1>11, <1>24

\* An element that is dropped with what is under it.
LEMMA DroppedStep ==
  ASSUME NEW p, Counted(p), Written(p), p.skip = 0, ~p.sheet, NEW e,
         e.ev \in {"start", "empty"}, e.name = "forbidden",
         NEW a, a = Read(p, e), NEW d, d = PlainEvent(a, e)
  PROVE  Counted(d) /\ Written(d)
<1>. DEFINE k == IF e.ev = "start" THEN 1 ELSE 0
<1>1. /\ IsPass(p) /\ p.depth \in Nat /\ p.nested \in Nat /\ p.open = p.depth + p.skip + p.nested
  BY DEF Counted
<1>2. OpenAfter(p, e) = p.depth + k + p.nested /\ k \in Nat
  <2>1. OpenAfter(p, e) = IF e.ev = "start" THEN p.open + 1 ELSE p.open
    BY DEF OpenAfter
  <2>. QED  BY ONLY <1>1, <2>1, p.skip = 0
<1>3. d = [a EXCEPT !.skip = k]
  <2>1. PlainEvent(a, e) = ElementEvent(a, e)
    BY DEF PlainEvent
  <2>2. ElementEvent(a, e) = [a EXCEPT !.skip = IF e.ev = "start" THEN 1 ELSE 0]
    BY DEF ElementEvent
  <2>. QED  BY <2>1, <2>2
<1>. HIDE DEF k
<1>4. /\ IsPass(a) /\ a.open = OpenAfter(p, e) /\ a.out = p.out /\ a.skip = p.skip /\ a.sheet = p.sheet
      /\ a.text = p.text /\ a.nested = p.nested /\ a.depth = p.depth /\ a.count = p.count
      /\ a.entities = p.entities
  BY ONLY <1>1, a = Read(p, e), ReadFields
<1>5. IsPass(d) /\ d.skip = k /\ SameBut(d, a, {"skip"})
  <2>1. IsPass(a)
    BY ONLY <1>4
  <2>. QED  BY ONLY <1>3, <2>1 DEF PassFields, IsPass, SameBut
<1>6. /\ d.open = a.open /\ d.out = a.out /\ d.sheet = a.sheet /\ d.text = a.text /\ d.nested = a.nested
      /\ d.depth = a.depth /\ d.count = a.count /\ d.entities = a.entities
  BY ONLY <1>5 DEF SameBut, PassFields
<1>7. Counted(d)
  <2>1. d.open = d.depth + d.skip + d.nested /\ d.skip \in Nat
    BY ONLY <1>1, <1>2, <1>4, <1>5, <1>6
  <2>. QED  BY <1>4, <1>5, <1>6, <2>1 DEF Counted
<1>8. Written(d)
  BY <1>4, <1>6, WrittenStays
<1>. QED  BY <1>7, <1>8

LEMMA PlainStep ==
  ASSUME NEW p, Counted(p), Written(p), p.skip = 0, ~p.sheet, NEW e, IsEvent(e), OpenAfter(p, e) >= 0,
         NEW a, a = Read(p, e), NEW d, d = PlainEvent(a, e)
  PROVE  PassOk(d)
<1>1. IsPass(p) /\ p.count \in Nat /\ p.depth \in Nat
  BY DEF Counted
<1>2. IsPass(a) /\ a.count = p.count /\ a.depth = p.depth
  BY ONLY <1>1, a = Read(p, e), ReadFields
<1>3. CASE e.ev \in {"start", "empty"}
  <2>. DEFINE k == IF e.ev = "start" THEN 1 ELSE 0
              counted == [a EXCEPT !.count = @ + 1, !.depth = IF e.ev = "start" THEN @ + 1 ELSE @]
  <2>1. d = ElementEvent(a, e)
    BY <1>3 DEF PlainEvent
  <2>2. CASE e.name = "malformed"
    <3>1. d = Refuse(a, "DecodeFailed")
      BY <2>1, <2>2 DEF ElementEvent
    <3>. QED  BY <1>2, <3>1, RefusedOk
  <2>3. CASE e.name = "forbidden"
    BY <1>3, <2>3, DroppedStep DEF PassOk
  <2>4. CASE e.name \notin {"malformed", "forbidden"}
    <3>1. CASE ~(p.count + 1 > MaxElements \/ p.depth + k > MaxNesting)
      <4>1. k = (IF e.ev = "start" THEN 1 ELSE 0)
        OBVIOUS
      <4>. HIDE DEF k
      <4>2. Counted(d) /\ Written(d)
        BY ONLY Counted(p), Written(p), p.skip = 0, ~p.sheet, IsEvent(e), a = Read(p, e), d = PlainEvent(a, e),
                <1>3, <2>4, <3>1, <4>1, ElementStep
      <4>. QED  BY <4>2 DEF PassOk
    <3>2. CASE p.count + 1 > MaxElements \/ p.depth + k > MaxNesting
      <4>1. counted.count = a.count + 1 /\ counted.depth = a.depth + k
        <5>. DEFINE c == [a EXCEPT !.count = a.count + 1]
        <5>1. c.count = a.count + 1 /\ c.depth = a.depth /\ IsPass(c)
          BY ONLY <1>2 DEF IsPass, PassFields
        <5>2. counted = [c EXCEPT !.depth = IF e.ev = "start" THEN @ + 1 ELSE @]
          BY Zenon
        <5>. HIDE DEF c, counted
        <5>3. counted.depth = (IF e.ev = "start" THEN c.depth + 1 ELSE c.depth) /\ counted.count = c.count
          BY ONLY <5>1, <5>2 DEF IsPass, PassFields
        <5>. QED  BY ONLY <1>1, <1>2, <5>1, <5>3
      <4>2. d = IF counted.count > MaxElements \/ counted.depth > MaxNesting
                THEN Refuse(a, "LimitExceeded")
                ELSE Write([counted EXCEPT !.sheet = e.ev = "start" /\ e.name = "style", !.nested = 0],
                           [e EXCEPT !.attrs = SanitizeAttributes(@, a.entities)])
        BY <2>1, <2>4 DEF ElementEvent
      <4>3. counted.count > MaxElements \/ counted.depth > MaxNesting
        <5>. HIDE DEF counted, k
        <5>. QED  BY ONLY <1>2, <3>2, <4>1
      <4>. HIDE DEF counted
      <4>4. d = Refuse(a, "LimitExceeded")
        BY ONLY <4>2, <4>3, Zenon
      <4>. QED  BY <1>2, <4>4, RefusedOk
    <3>. QED  BY <3>1, <3>2
  <2>. QED  BY <2>2, <2>3, <2>4
<1>4. CASE e.ev = "end"
  BY <1>4, EndStep DEF PassOk
<1>5. CASE e.ev = "ref"
  <2>. DEFINE x == IF e.name = "char" THEN e ELSE [ev |-> "text", text |-> Resolve(a.entities, e.name)]
  <2>1. d = Write(a, x)
    BY <1>5 DEF PlainEvent
  <2>2. x.ev \notin {"start", "empty", "end", "pi", "doctype"} /\ (x.ev = "ref" => x.name = "char")
    BY <1>5
  <2>3. OpenAfter(p, e) = p.open
    BY <1>5 DEF OpenAfter
  <2>. HIDE DEF x
  <2>4. Counted(d) /\ Written(d)
    BY ONLY Counted(p), Written(p), p.skip = 0, ~p.sheet, a = Read(p, e), <2>1, <2>2, <2>3, PlainWrites
  <2>. QED  BY <2>4 DEF PassOk
<1>6. CASE e.ev = "pi"
  <2>1. d = a
    BY <1>6 DEF PlainEvent
  <2>2. OpenAfter(p, e) = p.open
    BY <1>6 DEF OpenAfter
  <2>. QED  BY <2>1, <2>2, NothingDone DEF PassOk
<1>7. CASE e.ev = "doctype"
  <2>1. CASE e.unsafe
    <3>1. d = Refuse(a, "DecodeFailed")
      BY <1>7, <2>1 DEF PlainEvent
    <3>. QED  BY <1>2, <3>1, RefusedOk
  <2>2. CASE ~e.unsafe
    BY <1>7, <2>2, DoctypeStep DEF PassOk
  <2>. QED  BY <2>1, <2>2
<1>8. CASE e.ev \notin {"start", "empty", "end", "ref", "pi", "doctype"}
  <2>1. d = Write(a, e)
    BY <1>8 DEF PlainEvent
  <2>2. OpenAfter(p, e) = p.open
    BY <1>8 DEF OpenAfter
  <2>3. Counted(d) /\ Written(d)
    BY ONLY Counted(p), Written(p), p.skip = 0, ~p.sheet, a = Read(p, e), <1>8, <2>1, <2>2, PlainWrites
  <2>. QED  BY <2>3 DEF PassOk
<1>. QED  BY <1>3, <1>4, <1>5, <1>6, <1>7, <1>8

\* Every event keeps the loop's invariant.
LEMMA PassStep ==
  ASSUME NEW p, PassOk(p), p.error = "none", NEW e, IsEvent(e)
  PROVE  PassOk(SanitizeEvent(p, e))
<1>. DEFINE a == Read(p, e)
            d == SanitizeEvent(p, e)
<1>1. Counted(p) /\ Written(p)
  BY DEF PassOk
<1>2. /\ IsPass(p) /\ p.skip \in Nat /\ p.sheet \in BOOLEAN /\ p.open \in Nat
  <2>1. /\ IsPass(p) /\ p.skip \in Nat /\ p.sheet \in BOOLEAN /\ p.depth \in Nat /\ p.nested \in Nat
        /\ p.open = p.depth + p.skip + p.nested
    BY <1>1 DEF Counted
  <2>. QED  BY ONLY <2>1
<1>3. CASE OpenAfter(p, e) < 0
  <2>. DEFINE o == CASE e.ev = "start" -> p.open + 1 [] e.ev = "end" -> p.open - 1 [] OTHER -> p.open
  <2>1. o < 0
    BY <1>3 DEF OpenAfter
  <2>2. d = Refuse(p, "DecodeFailed")
    BY <2>1 DEF SanitizeEvent
  <2>. QED  BY <1>2, <2>2, RefusedOk
<1>4. CASE ~(OpenAfter(p, e) < 0)
  <2>0. OpenAfter(p, e) >= 0
    BY <1>2, <1>4 DEF OpenAfter
  <2>1. d = IF p.skip > 0 THEN SkipEvent(a, e) ELSE IF p.sheet THEN StyleEvent(a, e) ELSE PlainEvent(a, e)
    BY ONLY <1>2, <2>0, p.error = "none", EventIs
  <2>2. a = Read(p, e)
    OBVIOUS
  <2>. HIDE DEF a, d
  <2>3. CASE p.skip > 0
    <3>1. d = SkipEvent(a, e)
      BY ONLY <2>1, <2>3, Zenon
    <3>2. Counted(d) /\ Written(d)
      BY ONLY <1>1, <2>0, <2>2, <2>3, <3>1, SkipStep
    <3>. QED  BY ONLY <3>2 DEF PassOk, d
  <2>4. CASE ~(p.skip > 0) /\ p.sheet
    <3>1. d = StyleEvent(a, e) /\ p.skip = 0
      <4>1. p.skip = 0
        BY ONLY <1>2, <2>4
      <4>2. d = StyleEvent(a, e)
        BY ONLY <2>1, <2>4, Zenon
      <4>. QED  BY ONLY <4>1, <4>2
    <3>2. Counted(d) /\ Written(d)
      BY ONLY <1>1, <2>0, <2>2, <2>4, <3>1, IsEvent(e), StyleStep
    <3>. QED  BY ONLY <3>2 DEF PassOk, d
  <2>5. CASE ~(p.skip > 0) /\ ~p.sheet
    <3>1. p.skip = 0
      BY ONLY <1>2, <2>5
    <3>2. d = PlainEvent(a, e)
      BY ONLY <2>1, <2>5, Zenon
    <3>. QED  BY ONLY <1>1, <2>0, <2>2, <2>5, <3>1, <3>2, IsEvent(e), PlainStep DEF d
  <2>. QED  BY <2>3, <2>4, <2>5
<1>. QED  BY <1>3, <1>4

LEMMA PassStarts == PassOk(SanitizeStart)
<1>. DEFINE p == SanitizeStart
<1>1. /\ IsPass(p) /\ p.error = "none" /\ p.skip = 0 /\ p.nested = 0 /\ p.text = <<>> /\ p.open = 0
      /\ p.out = <<>> /\ p.depth = 0 /\ p.count = 0 /\ p.entities = <<>>
  BY DEF SanitizeStart, IsPass, PassFields
<1>2. p.sheet \in BOOLEAN /\ ~p.sheet
  BY DEF SanitizeStart
<1>3. Scanned(p.out) = p
  BY <1>1, EventsNext
<1>. HIDE DEF p
<1>4. IsEntities(p.entities) /\ p.text \in Seq(Pieces) /\ p.out \in Seq({})
  BY ONLY <1>1 DEF IsEntities
<1>5. Counted(p)
  BY ONLY <1>1, <1>2, <1>4 DEF Counted
<1>6. Inert(p.out) /\ ~EndsInStyle(p.out)
  BY ONLY <1>1 DEF Inert, EndsInStyle
<1>7. Mirrors(p, p)
  BY ONLY <1>1 DEF Mirrors
<1>8. Written(p)
  BY ONLY <1>3, <1>4, <1>6, <1>7 DEF Written
<1>. QED  BY ONLY <1>5, <1>8 DEF PassOk, p

\* The end of the loop.
LEMMA PassEnds ==
  ASSUME NEW p, PassOk(p), p.error = "none", RootIsSvg(p.out)
  PROVE  Inert(p.out) /\ Sanitize(p.out) = [ok |-> TRUE, error |-> "none", doc |-> p.out]
<1>1. Inert(p.out) /\ Mirrors(Scanned(p.out), p)
  BY DEF PassOk, Written
<1>2. Scanned(p.out).error = "none" /\ Scanned(p.out).out = p.out
  BY ONLY <1>1 DEF Mirrors
<1>3. Sanitize(p.out) =
        IF Scanned(p.out).error # "none" THEN [ok |-> FALSE, error |-> Scanned(p.out).error, doc |-> <<>>]
        ELSE IF ~RootIsSvg(Scanned(p.out).out) THEN [ok |-> FALSE, error |-> "DecodeFailed", doc |-> <<>>]
        ELSE [ok |-> TRUE, error |-> "none", doc |-> Scanned(p.out).out]
  BY DEF Sanitize, Scanned
<1>. QED  BY ONLY <1>1, <1>2, <1>3, RootIsSvg(p.out), Zenon

-----------------------------------------------------------------------------
(* The codec's steps *)

\* An event moves a pass on by one, or stops it where it is.
LEMMA PlaceKept ==
  ASSUME NEW a, IsPass(a), NEW e
  PROVE  SkipEvent(a, e).at = a.at /\ StyleEvent(a, e).at = a.at /\ PlainEvent(a, e).at = a.at
<1>. DEFINE Held(p) == IsPass(p) /\ p.at = a.at
<1>1. \A p, f, v : Held(p) /\ f \in PassFields \ {"at"} => Held([p EXCEPT ![f] = v])
  BY DEF IsPass, PassFields
<1>2. Held(a) /\ \A p : Held(p) => p.at = a.at
  OBVIOUS
<1>. HIDE DEF Held
<1>3. \A p, v : Held(p) =>
        /\ Held([p EXCEPT !.out = v]) /\ Held([p EXCEPT !.skip = v]) /\ Held([p EXCEPT !.sheet = v])
        /\ Held([p EXCEPT !.text = v]) /\ Held([p EXCEPT !.nested = v]) /\ Held([p EXCEPT !.depth = v])
        /\ Held([p EXCEPT !.count = v]) /\ Held([p EXCEPT !.entities = v]) /\ Held([p EXCEPT !.error = v])
  <2>1. {"out", "skip", "sheet", "text", "nested", "depth", "count", "entities", "error"}
          \subseteq PassFields \ {"at"}
    BY DEF PassFields
  <2>. QED  BY ONLY <1>1, <2>1, Zenon
<1>4. \A p, v : Held(p) => Held(Write(p, v)) /\ Held(Refuse(p, v))
  BY <1>3, Zenon DEF Write, Refuse
<1>5. Held(SkipEvent(a, e))
  BY <1>2, <1>3, Zenon DEF SkipEvent
<1>6. Held(StyleEvent(a, e))
  <2>. DEFINE css == SanitizeCss(a.text)
              closed == [a EXCEPT !.sheet = FALSE, !.text = <<>>, !.depth = IF @ = 0 THEN 0 ELSE @ - 1]
  <2>1. Held(closed)
    BY <1>2, <1>3, Zenon
  <2>2. Held(Write(IF css = <<>> THEN closed ELSE Write(closed, [ev |-> "text", text |-> css]), e))
    <3>. HIDE DEF css, closed
    <3>. QED  BY <1>4, <2>1, Zenon
  <2>. QED  BY <1>2, <1>3, <2>2, Zenon DEF StyleEvent
<1>7. Held(ElementEvent(a, e))
  <2>. DEFINE counted == [a EXCEPT !.count = @ + 1, !.depth = IF e.ev = "start" THEN @ + 1 ELSE @]
  <2>1. Held(counted)
    BY <1>2, <1>3, Zenon
  <2>2. \A v : Held(Write([counted EXCEPT !.sheet = e.ev = "start" /\ e.name = "style", !.nested = 0], v))
    <3>. HIDE DEF counted
    <3>. QED  BY <1>3, <1>4, <2>1, Zenon
  <2>. QED  BY <1>2, <1>3, <1>4, <2>2, Zenon DEF ElementEvent
<1>8. Held(PlainEvent(a, e))
  <2>1. \A v : Held(Write([a EXCEPT !.depth = IF @ = 0 THEN 0 ELSE @ - 1], v))
    BY <1>2, <1>3, <1>4, Zenon
  <2>2. \A v : Held(Write([a EXCEPT !.entities = e.entities], v)) /\ Held(Write(a, v))
    BY <1>2, <1>3, <1>4, Zenon
  <2>. QED  BY <1>2, <1>4, <1>7, <2>1, <2>2, Zenon DEF PlainEvent
<1>. QED  BY <1>2, <1>5, <1>6, <1>8, Zenon

LEMMA PlaceNext ==
  ASSUME NEW p, IsPass(p), p.error = "none", p.at \in Nat, NEW e
  PROVE  SanitizeEvent(p, e).at \in Nat
<1>. DEFINE o == CASE e.ev = "start" -> p.open + 1 [] e.ev = "end" -> p.open - 1 [] OTHER -> p.open
            a == [p EXCEPT !.open = o, !.at = @ + 1]
<1>1. IsPass(a) /\ a.at = p.at + 1
  <2>. HIDE DEF o
  <2>. QED  BY DEF IsPass, PassFields
<1>2. SanitizeEvent(p, e) \in {Refuse(p, "DecodeFailed"), SkipEvent(a, e), StyleEvent(a, e), PlainEvent(a, e)}
  BY DEF SanitizeEvent
<1>3. Refuse(p, "DecodeFailed").at = p.at
  BY DEF Refuse, IsPass, PassFields
<1>. HIDE DEF a
<1>. QED  BY <1>1, <1>2, <1>3, PlaceKept

\* What the codec knows of a pass: it is sound, and only a document that came
\* through with its root goes on.
SanitizeInv ==
  /\ PassOk(pass) /\ pass.at \in Nat
  /\ stage \in {"handback", "draw"} => pass.error = "none" /\ RootIsSvg(pass.out)

LEMMA SanitizeStarts ==
  ASSUME TransformInit
  PROVE  SanitizeInv
<1>1. pass = SanitizeStart /\ stage = "accept"
  BY DEF TransformInit, RasterInit
<1>2. SanitizeStart.at \in Nat
  BY DEF SanitizeStart
<1>. QED  BY <1>1, <1>2, PassStarts DEF SanitizeInv

\* No stage of the raster codec leads back to the drawing's own.
LEMMA RasterStagesStay ==
  ASSUME TransformInv, RasterNext
  PROVE  stage' \notin {"handback", "draw"}
<1>1. \A e : Fail(e) => stage' = "done"
  BY DEF Fail
<1>2. \A s : Work(s) => stage' \in {s, "done"}
  BY DEF Work
<1>3. CASE Accept
  BY <1>1, <1>3 DEF Accept
<1>4. CASE LosslessJpeg
  BY <1>1, <1>4 DEF LosslessJpeg
<1>5. CASE ExtractMetadata
  BY <1>1, <1>5 DEF ExtractMetadata, Unchecked
<1>6. CASE Decode
  BY <1>1, <1>2, <1>6 DEF Decode
<1>7. CASE PixelStages
  <2>1. (\E e : Fail(e)) \/ (\E s : Work(s) /\ s \in ImageStages)
    <3>1. CASE Rotate
      BY <3>1, StageFacts DEF Rotate, ImageStages
    <3>2. CASE Crop
      BY <3>2, StageFacts DEF Crop, ImageStages
    <3>3. CASE Resize
      BY <3>3, StageFacts DEF Resize, ImageStages
    <3>4. CASE \E s \in {"blur", "sharpen", "grayscale"} : Filter(s)
      BY <3>4, StageFacts DEF Filter, ImageStages
    <3>5. CASE Watermark
      BY <3>5 DEF Watermark, ImageStages
    <3>. QED  BY <1>7, <3>1, <3>2, <3>3, <3>4, <3>5 DEF PixelStages
  <2>. QED  BY <1>1, <1>2, <2>1 DEF ImageStages
<1>8. CASE \/ Encode \/ EncoderFails \/ TryPngStrategy \/ EncodeAtQuality \/ EncodeUnavailable
           \/ ProbeQuality \/ EndSearch
  <2>1. stage = "encode" /\ ((\E e : Fail(e)) \/ EncodeWork \/ stage' = stage)
    BY <1>8 DEF Encode, EncoderFails, TryPngStrategy, EncodeAtQuality, EncodeUnavailable, ProbeQuality,
                EndSearch, BaselineEncode, LosslessEncode
  <2>2. CASE EncodeWork
    BY <1>2, <2>2 DEF EncodeWork
  <2>. QED  BY <1>1, <2>1, <2>2
<1>9. CASE Finish
  BY <1>9 DEF Finish
<1>. QED  BY <1>3, <1>4, <1>5, <1>6, <1>7, <1>8, <1>9 DEF RasterNext

LEMMA ReadEventKeeps ==
  ASSUME TransformInv, SanitizeInv, ReadEvent
  PROVE  SanitizeInv'
<1>. DEFINE doc == req.input.doc
<1>1. /\ stage = "sanitize" /\ pass.error = "none" /\ stage' = stage /\ PassOk(pass) /\ pass.at \in Nat
  BY DEF ReadEvent, SanitizeInv, rasterVars
<1>2. PICK e \in EventAt(doc, pass.at + 1) : pass' = SanitizeEvent(pass, e)
  BY DEF ReadEvent
<1>3. req \in Requests
  BY <1>1, DrawingFacts DEF DrawingStages
<1>4. /\ \A i \in 1..Len(doc.head) : IsEvent(doc.head[i])
      /\ \A x \in doc.palette : IsEvent(x)
  BY <1>3, DocumentsAssumption
<1>5. IsEvent(e)
  <2>. HIDE DEF doc
  <2>1. CASE pass.at + 1 <= Len(doc.head)
    <3>1. e = doc.head[pass.at + 1]
      BY <1>2, <2>1 DEF EventAt
    <3>2. pass.at + 1 \in 1..Len(doc.head)
      BY <1>1, <2>1
    <3>. QED  BY <1>4, <3>1, <3>2
  <2>2. CASE ~ (pass.at + 1 <= Len(doc.head))
    BY <1>2, <1>4, <2>2 DEF EventAt
  <2>. QED  BY <2>1, <2>2
<1>6. PassOk(pass')
  BY ONLY <1>1, <1>2, <1>5, PassStep
<1>7. pass'.at \in Nat
  BY <1>1, <1>2, PlaceNext DEF PassOk, Counted
<1>. QED  BY <1>1, <1>6, <1>7 DEF SanitizeInv, PassOk

LEMMA SanitizeSteps ==
  ASSUME TransformInv, SanitizeInv, [TransformNext]_svgVars
  PROVE  SanitizeInv'
<1>1. CASE ReadEvent
  BY <1>1, ReadEventKeeps
<1>2. ASSUME pass' = pass, stage' \in {"handback", "draw"} => pass.error = "none" /\ RootIsSvg(pass.out)
      PROVE  SanitizeInv'
  BY <1>2 DEF SanitizeInv, PassOk
<1>3. CASE RasterNext /\ pass' = pass
  BY <1>2, <1>3, RasterStagesStay
<1>4. CASE SanitizeDocument
  BY <1>2, <1>4, FailFacts DEF SanitizeDocument
<1>5. CASE AcceptSvg \/ HandBack \/ Draw \/ EncodeDrawing
  <2>1. pass' = pass
    BY <1>5 DEF AcceptSvg, HandBack, Draw, EncodeDrawing
  <2>2. stage' \in {"sanitize", "rotate", "done"}
    BY <1>5, FailFacts, WorkFacts DEF AcceptSvg, HandBack, Draw, EncodeDrawing
  <2>. QED  BY <1>2, <2>1, <2>2
<1>6. CASE UNCHANGED svgVars
  BY <1>2, <1>6 DEF SanitizeInv, svgVars, rasterVars
<1>. QED  BY <1>1, <1>3, <1>4, <1>5, <1>6 DEF TransformNext, SvgNext

\* Whatever the document, however its events are ordered and whatever its style
\* sheets, attributes and entities say, what sanitize_svg lets through is inert,
\* and sanitizing it again accepts it and changes nothing.
THEOREM DocumentsAreSanitizedOnce == TransformSpec => []SanitizedOnce
<1>1. TransformSpec => []SanitizeInv
  BY TransformAlways, SanitizeStarts, SanitizeSteps, PTL DEF TransformSpec
<1>2. SanitizeInv => SanitizedOnce
  BY PassEnds DEF SanitizeInv, SanitizedOnce
<1>. QED  BY <1>1, <1>2, PTL
=============================================================================
