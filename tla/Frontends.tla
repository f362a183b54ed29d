----------------------------- MODULE Frontends -----------------------------
(***************************************************************************)
(* One use of truss from outside: a command or a WebAssembly call, the     *)
(* sniffing of its input, and, for a server that starts, its configuration *)
(* and the watcher of its presets, with the operator who edits the file.   *)
(***************************************************************************)
EXTENDS WasmAdapter

allVars == <<commandVars, sniffVars, watchVars>>

Init == CommandInit /\ SniffInit /\ WatchInit

Sniffing == at = "sniff" /\ SniffNext /\ UNCHANGED <<commandVars, watchVars>>

\* The watcher thread lives while the server does.
Watching == at = "serving" /\ config.s.watched /\ Watch /\ UNCHANGED <<commandVars, sniffVars>>

\* The operator edits the file at any time and stops the server when it runs.
Operating ==
  /\ \/ Starting /\ Given(job.env, "TRUSS_PRESETS_FILE") /\ Operate
     \/ at = "serving" /\ Shutdown
  /\ UNCHANGED <<commandVars, sniffVars>>

Next == CommandStep \/ CallStep \/ Sniffing \/ Watching \/ Operating \/ ServeReturns \/ Rival \/ Kill

\* The process is blocked until somebody else does something, and no timeout
\* ends that: read_to_end of a pipe, an origin that accepts the connection and
\* sends no response head, a standard output or a pipe at the output path that
\* nobody reads.
Waiting ==
  \/ at = "read" /\ job.line.url = NoUrl
  \/ at = "watermark" /\ job.line.watermark.scheme = "path"
  \/ at = "hop" /\ fetch.hops <= MaxRedirects
  \/ at \in {"text", "bind"}
  \/ at = "flush" /\ stdout = "buffered"
  \/ at \in {"open", "pour"} /\ job.dest = "special"

\* A started process runs on where it does not wait; the other end of a wait,
\* the operator, the rival and the kill are under no obligation.
Spec ==
  /\ Init /\ [][Next]_allVars
  /\ WF_allVars((CommandStep \/ CallStep) /\ ~Waiting)
  /\ WF_allVars(Sniffing) /\ WF_allVars(Watching)

Ended == at = "end"
Killed == end.code = 137
Delivered == stdout = "written" \/ disk.put

----------------------------------------------------------------------------
(* Properties.                                                             *)

\* A file at the output path is never half written, whoever races for it and
\* wherever the process is killed, unless replace_file had to write through.
OutputWhole == ~disk.inPlace => disk.out \in {"old", "new", "rival"}

\* A command that ends on its own leaves no temporary file, or its report names it.
NoStrayTemporary == Ended /\ ~Killed => disk.tmp = "none" \/ end.named

\* The exit code tells whether the output was delivered: 0 if and only if the
\* bytes left the process, by flush_stdout or by the rename (a server that had
\* announced itself may still fail later); a failure that did not write through
\* leaves the destination to whoever wrote it last.
ExitTells ==
  Ended /\ ~Killed =>
    /\ end.code = 0 => Delivered /\ end.class = "none"
    /\ end.code # 0 /\ config.probe = "none" => ~Delivered
    /\ end.code # 0 /\ ~disk.inPlace => disk.out \in {"old", "rival"}

\* What inspect reports is what convert applies (exif_orientation), whatever
\* stands in the headers; the one difference is an Exif segment after the SOF,
\* which sniff_jpeg never reaches.
TagsAgree ==
  sniffed = "ok" /\ meta.tag # meta.applied =>
    /\ file.type = "jpeg" /\ ~meta.exif
    /\ \E s, e \in DOMAIN head : s < e /\ head[s].k = "SOF" /\ CarriesExif(head[e])

\* Every command and every call comes to an end, or to a server that serves, or
\* stops at one wait for good: whatever the file's headers and the redirects say,
\* it does not run for ever.
CommandEnds ==
  \/ <>(at \in {"end", "serving"})
  \/ <>[]Waiting /\ <>[][FALSE]_fetch

\* A watched file that has a valid version in place gets it into force:
\* "valid updates are applied without restart" (docs/configuration.md), also
\* when the watcher read the file in the middle of the write.  The version that
\* is written between the first read and the watcher's first look is the one
\* that may be missed.
PresetsCatchUp ==
  \A v \in 1..MaxVersion :
    (content = "whole" /\ version = v) ~>
      (\/ presets = v \/ version # v \/ content # "whole"
       \/ early = v \/ draining \/ pc = "config" \/ Ended)

\* png_ancillary_facts: "A length that runs off the end ends the walk with
\* whatever was read" (src/core.rs:2908), so no file makes the sniff panic.
NoPanic == sniffed # "panic"

\* "range: 0.01-0.50" (docs/configuration.md:25) for the margin of a server that starts.
MarginInRange == config.probe # "none" => config.s.margin \in {"default", "least", "most"}
=============================================================================
