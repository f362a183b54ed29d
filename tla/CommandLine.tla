---------------------------- MODULE CommandLine ----------------------------
(***************************************************************************)
(* The truss command (src/adapters/cli): one invocation, from its command  *)
(* line to its exit code.                                                  *)
(*                                                                         *)
(* A job is the command line, the file it is given, the environment, what  *)
(* stands at the output path, and NoCall.  The bytes of the output are     *)
(* told apart only as the old ones, the new ones whole, the new ones cut   *)
(* short, and those of another process that replaced the file meanwhile.   *)
(* What the codecs answer is any of the answers of Transform.              *)
(***************************************************************************)
EXTENDS Sniff, Config, PresetWatcher

CONSTANTS
  Jobs,         \* [line, file, env, dest, call]
  Urls,         \* [scheme, host]: the URLs a command line or a redirect may name
  MaxRedirects  \* CLI_FETCH_MAX_REDIRECTS

\* A file has a length.
ASSUME JobsAssumption == \A j \in Jobs : j.file.size \in Nat

VARIABLES
  job,     \* the job under way
  at,      \* the step it has come to
  fetch,   \* [url, hops, role]: the fetch under way
  disk,    \* [out, tmp, put, inPlace]: the output path and the temporary beside it
  stdout,  \* "empty", "buffered", "written" or "lost"
  config,  \* of a server that is starting: its configuration and the probe's answer
  end      \* [code, class, named]: how it ended; named when the report names the temporary

commandVars == <<job, at, fetch, disk, stdout, config, end>>

NoUrl == [scheme |-> "none", host |-> "none"]
NoCall == [name |-> "none", declared |-> "none", options |-> "none", mark |-> "none"]
NotEnded == [code |-> -1, class |-> "none", named |-> FALSE]

ExitUsage == 1
ExitIo == 2
ExitInput == 3
ExitTransform == 4
ExitRuntime == 5

----------------------------------------------------------------------------
(* Steps and endings.                                                      *)

Goes(step) == at' = step /\ end' = end

\* write_error: the report is one line with the class; its failure has no channel.
Ends2(code, class, named) == at' = "end" /\ end' = [code |-> code, class |-> class, named |-> named]
Fails(code, class) == Ends2(code, class, FALSE)

Same(vars) == UNCHANGED vars /\ UNCHANGED sniffVars /\ UNCHANGED watchVars

\* class_for_io_error.
IoClasses == {"NotFound", "InvalidRequest", "InternalError"}

\* map_transform_error: the exit code of each class of the pipeline.
TransformErrors ==
  {"InvalidOptions", "InvalidInput", "DecodeFailed", "UnsupportedInputMediaType", "UnsupportedOutputMediaType",
   "EncodeFailed", "CapabilityMissing", "LimitExceeded"}
ExitOf(class) ==
  CASE class = "InvalidOptions" -> ExitUsage
    [] class \in {"InvalidInput", "UnsupportedInputMediaType"} -> ExitInput
    [] OTHER -> ExitTransform

\* main: a panic of the command's thread has no class, only the code.
Panics == Fails(ExitRuntime, "none")

----------------------------------------------------------------------------
(* parse_args.                                                             *)

\* parse_help_topic: the topics that have a text, "none" being the top level.
HelpTopics ==
  {"none", "convert", "optimize", "inspect", "serve", "validate", "sign", "completions", "version"}

Subcommands == {"convert", "optimize", "inspect", "serve", "validate", "sign", "help", "completions", "version"}

\* preprocess_args: the first argument names the subcommand, or implies one.
Route(line) ==
  CASE line.first \in {"nothing", "-h"} -> "help"
    [] line.first = "-V" -> "version"
    [] line.first = "serve flag" -> "serve"
    [] line.first \in Subcommands -> line.first
    [] line.first \in {"existing file", "path"} -> "convert"
    [] line.first = "word" -> "unknown"

IsHttp(url) == url.scheme \in {"http", "https"}

\* The flags each subcommand has.
Shared == {"format", "quality", "target-quality", "strip-metadata", "keep-metadata", "preserve-exif"}
Shaping ==
  {"width", "height", "fit", "position", "optimize", "background", "rotate", "auto-orient", "no-auto-orient",
   "crop", "blur", "sharpen", "grayscale", "without-enlargement"}
Marking == {"watermark-position", "watermark-opacity", "watermark-margin"}
ConvertFlags == Shared \cup Shaping \cup Marking
OptimizeFlags == Shared \cup {"mode", "auto-orient", "no-auto-orient"}
ServeFlags == {"bind", "public-base-url"}
SignFlags == Shared \cup Shaping \cup Marking \cup {"base-url", "url", "method", "watermark-url"}
FlagsOf(sub) ==
  CASE sub = "convert" -> ConvertFlags [] sub = "optimize" -> OptimizeFlags [] sub = "serve" -> ServeFlags
    [] sub = "sign" -> SignFlags [] OTHER -> {}

\* Every number is read at any width: "outside" is one the option can hold and the
\* pipeline refuses, "wide" one it cannot hold, "word" what is no number or name.
Numbers == {"width", "height", "quality", "blur", "sharpen"}

\* parse_media_type and parse_optimizable_media_type.
FormatsTaken(sub) == IF sub = "optimize" THEN {"png"} ELSE {"png", "tiff"}

\* The value parsers: what each flag takes.  parse_optimizing_mode has no `none`, and
\* parse_watermark_opacity knows its whole range.
Taken(sub, flag) ==
  CASE flag \in Numbers -> {"good", "outside"}
    [] flag = "format" -> FormatsTaken(sub)
    [] flag = "optimize" -> {"good", "none"}
    [] OTHER -> {"good"}

ValuesRead(sub, values) ==
  \A flag \in DOMAIN values : flag \in FlagsOf(sub) /\ values[flag] \in Taken(sub, flag)

\* What TransformOptions::normalize refuses although the command line could be read.
OutsideRange(values) == \E flag \in DOMAIN values : values[flag] = "outside"

\* The input of convert, optimize and inspect: exactly one, and validate_url.
InputGiven(line) ==
  IF line.url # NoUrl THEN line.input = "none" /\ IsHttp(line.url) ELSE line.input # "none"

\* reject_unencodable_output_extension, when no format is given.
ExtensionRefused(line) ==
  "format" \notin DOMAIN line.values /\ line.output = "path" /\ line.extension \in {"avif", "gif"}

\* convert_from_clap and optimize_from_clap, which takes no watermark, and then
\* TransformFields::into_options.
FromClap(line) ==
  CASE ~InputGiven(line) \/ line.output = "none" \/ ExtensionRefused(line)
         \/ (line.watermark = NoUrl /\ line.watermarkOptions) -> "usage"
    [] line.keepsAndPreserves -> "options"
    [] OTHER -> "convert"

\* sign_from_clap and the refusals of execute_sign.
SignFromClap(line) ==
  IF line.missing # {} \/ (line.watermark = NoUrl /\ line.watermarkOptions) THEN "usage"
  ELSE IF line.keepsAndPreserves THEN "options" ELSE "text"

\* parse_args: the step the command starts with, or the kind of its refusal.
Command(line) ==
  LET sub == Route(line)
  IN CASE sub = "unknown" \/ ~ValuesRead(sub, line.values) -> "usage"
       [] sub \in {"help", "completions"} /\ line.topic \notin HelpTopics -> "usage"
       [] sub \in {"help", "version", "completions"} /\ line.topic \in HelpTopics -> "text"
       [] sub \notin {"help", "version", "completions"} /\ line.help -> "text"
       [] sub \in {"convert", "optimize"} /\ ~line.help -> FromClap(line)
       [] sub = "inspect" /\ ~line.help -> IF InputGiven(line) THEN "inspect" ELSE "usage"
       [] sub = "sign" /\ ~line.help -> SignFromClap(line)
       [] OTHER -> "config"

ParseArgs ==
  /\ at = "parse"
  /\ CASE Command(job.line) = "usage" -> Fails(ExitUsage, "InvalidRequest")
       [] Command(job.line) = "options" -> Fails(ExitUsage, "InvalidOptions")
       [] Command(job.line) \in {"convert", "inspect"} -> Goes("read")
       [] OTHER -> Goes(Command(job.line))
  /\ Same(<<job, fetch, disk, stdout, config>>)

----------------------------------------------------------------------------
(* Standard output.                                                        *)

\* stdout.write_all of a text or an image; clap_complete panics on a failure.
WriteStdout ==
  /\ at = "text"
  /\ \/ stdout' = "buffered" /\ Goes("flush")
     \/ stdout' = "lost" /\ (IF job.line.first = "completions" THEN Panics ELSE Fails(ExitRuntime, "InternalError"))
  /\ Same(<<job, fetch, disk, config>>)

\* Mutant: what the last flush answers is dropped.
FlushIgnored ==
  /\ at = "flush"
  /\ stdout' \in (IF stdout = "buffered" THEN {"written", "lost"} ELSE {stdout})
  /\ Ends2(0, "none", FALSE)
  /\ Same(<<job, fetch, disk, config>>)

\* flush_stdout: a success whose bytes do not leave the buffer is a failure.
Flush ==
  /\ at = "flush"
  /\ stdout' \in (IF stdout = "buffered" THEN {"written", "lost"} ELSE {stdout})
  /\ IF stdout' = "lost" THEN Fails(ExitRuntime, "InternalError") ELSE Ends2(0, "none", FALSE)
  /\ Same(<<job, fetch, disk, config>>)

----------------------------------------------------------------------------
(* Reading the input and the watermark.                                    *)

StartsFetch(url, role) == fetch' = [url |-> url, hops |-> 0, role |-> role]

\* read_input_bytes.
ReadInput ==
  /\ at = "read"
  /\ IF job.line.url # NoUrl THEN Goes("hop") /\ StartsFetch(job.line.url, "input")
     ELSE /\ \/ Goes("sniff")
             \/ \E class \in (IF job.line.input = "-" THEN {"InternalError"} ELSE IoClasses) : Fails(ExitIo, class)
          /\ UNCHANGED fetch
  /\ Same(<<job, disk, stdout, config>>)

\* refuse_disallowed_fetch_target: what the name resolves to is looked at too.
FetchAllowed(url) == IsHttp(url) /\ url.host \notin {"metadata", "alias of metadata"}

\* What an origin may answer: is_redirect_status, is_success_status,
\* unreadable_content_coding, and the two looks at the length of the body.
Bodies == [coding : {"plain", "br"}, declared : {"none", "small", "large"}, length : {"small", "large", "broken"}]
BodyTaken(body) == body.coding = "plain" /\ body.declared # "large" /\ body.length = "small"

\* One turn of the loop of read_url_bytes.
Hop ==
  /\ at = "hop"
  /\ IF fetch.hops > MaxRedirects \/ ~FetchAllowed(fetch.url)
     THEN Fails(ExitIo, "BadGateway") /\ UNCHANGED fetch
     ELSE \/ \E url \in Urls :
               Goes("hop") /\ fetch' = [fetch EXCEPT !.url = url, !.hops = @ + 1]
          \/ Fails(ExitIo, "BadGateway") /\ UNCHANGED fetch
          \/ \E body \in Bodies :
               /\ UNCHANGED fetch
               /\ IF BodyTaken(body) THEN Goes(IF fetch.role = "input" THEN "sniff" ELSE "mark")
                  ELSE Fails(ExitIo, "BadGateway")
  /\ Same(<<job, disk, stdout, config>>)

\* What follows sniff_artifact in execute_inspect and execute_convert.
Sniffed ==
  /\ at = "sniff" /\ sniffed # "none" /\ job.call = NoCall
  /\ CASE sniffed = "panic" -> Panics
       [] sniffed = "ok" -> Goes(CASE Route(job.line) = "inspect" -> "text"
                                   [] job.line.watermark # NoUrl -> "watermark"
                                   [] OTHER -> "transform")
       [] OTHER -> Fails(ExitOf(sniffed), sniffed)
  /\ Same(<<job, fetch, disk, stdout, config>>)

\* read_watermark_bytes: a value that names a scheme is a URL, and any other a path.
ReadWatermark ==
  /\ at = "watermark"
  /\ LET mark == job.line.watermark
     IN IF mark.scheme = "path"
        THEN (Goes("mark") \/ \E class \in IoClasses : Fails(ExitIo, class)) /\ UNCHANGED fetch
        ELSE IF ~IsHttp(mark) THEN Fails(ExitUsage, "InvalidRequest") /\ UNCHANGED fetch
        ELSE Goes("hop") /\ StartsFetch(mark, "watermark")
  /\ Same(<<job, disk, stdout, config>>)

\* The watermark is sniffed as the input is.
SniffWatermark ==
  /\ at = "mark"
  /\ \/ Goes("transform")
     \/ \E class \in {"DecodeFailed", "UnsupportedInputMediaType"} : Fails(ExitOf(class), class)
  /\ Same(<<job, fetch, disk, stdout, config>>)

\* transform, and write_output_bytes: standard output or the path.
RunTransform ==
  /\ at = "transform"
  /\ IF OutsideRange(job.line.values) THEN Fails(ExitUsage, "InvalidOptions")
     ELSE \/ Goes(IF job.line.output = "-" THEN "text" ELSE "replace")
          \/ \E class \in TransformErrors : Fails(ExitOf(class), class)
  /\ Same(<<job, fetch, disk, stdout, config>>)

----------------------------------------------------------------------------
(* replace_file: dest is what stands at the path, "absent", "file",        *)
(* "special" for a link, a pipe or a device, "readonly", or "closed" for a *)
(* file in a directory that takes no new one.                              *)

\* is_replaceable_destination, refuse_a_destination_the_caller_may_not_write.
CheckDestination ==
  /\ at = "replace"
  /\ CASE job.dest = "special" -> Goes("open")
       [] job.dest = "readonly" -> Fails(ExitIo, "InternalError")
       [] OTHER -> Goes("create")
  /\ Same(<<job, fetch, disk, stdout, config>>)

\* temporary_sibling, File::create: when it fails the destination is written through.
CreateTemporary ==
  /\ at = "create"
  /\ \/ job.dest # "closed" /\ Goes("fill") /\ disk' = [disk EXCEPT !.tmp = "cut"]
     \/ Goes("open") /\ UNCHANGED disk
  /\ Same(<<job, fetch, stdout, config>>)

\* Mutant: the result of the write is not looked at.
FillTemporaryUnchecked ==
  /\ at = "fill"
  /\ Goes("rename") /\ disk' \in {[disk EXCEPT !.tmp = "whole"], disk}
  /\ Same(<<job, fetch, stdout, config>>)

\* file.write_all, copy_permissions.
FillTemporary ==
  /\ at = "fill"
  /\ \/ Goes("rename") /\ disk' = [disk EXCEPT !.tmp = "whole"]
     \/ Goes("remove") /\ UNCHANGED disk
  /\ Same(<<job, fetch, stdout, config>>)

\* fs::rename.
RenameTemporary ==
  /\ at = "rename"
  /\ \/ /\ Goes("flush")
        /\ disk' = [disk EXCEPT !.out = IF disk.tmp = "whole" THEN "new" ELSE "cut", !.tmp = "none", !.put = TRUE]
     \/ Goes("remove") /\ UNCHANGED disk
  /\ Same(<<job, fetch, stdout, config>>)

\* Mutant: a temporary that cannot be removed is not mentioned.
RemoveTemporarySilently ==
  /\ at = "remove"
  /\ \E class \in IoClasses : Fails(ExitIo, class)
  /\ disk' \in {disk, [disk EXCEPT !.tmp = "none"]}
  /\ Same(<<job, fetch, stdout, config>>)

\* fs::remove_file of what is left, named in the report when it stays.
RemoveTemporary ==
  /\ at = "remove"
  /\ \E class \in IoClasses, removed \in BOOLEAN :
       /\ Ends2(ExitIo, class, ~removed)
       /\ disk' = IF removed THEN [disk EXCEPT !.tmp = "none"] ELSE disk
  /\ Same(<<job, fetch, stdout, config>>)

\* fs::write, which empties the destination first ...
OpenDirectly ==
  /\ at = "open"
  /\ \/ Goes("pour") /\ disk' = [disk EXCEPT !.out = "cut", !.inPlace = TRUE]
     \/ \E class \in IoClasses : Fails(ExitIo, class) /\ UNCHANGED disk
  /\ Same(<<job, fetch, stdout, config>>)

\* ... and then fills it, or what another process unlinked from under it.
PourDirectly ==
  /\ at = "pour"
  /\ \/ Goes("flush") /\ disk' = [disk EXCEPT !.out = IF @ = "rival" THEN @ ELSE "new", !.put = TRUE]
     \/ \E class \in IoClasses : Fails(ExitIo, class) /\ UNCHANGED disk
  /\ Same(<<job, fetch, stdout, config>>)

Replacing == {"replace", "create", "fill", "rename", "remove", "open", "pour"}

\* Another process replaces the same output, the way this one does.
Rival ==
  /\ at \in Replacing /\ job.dest \in {"absent", "file"} /\ disk.out # "rival"
  /\ disk' = [disk EXCEPT !.out = "rival"]
  /\ Same(<<job, at, fetch, stdout, config, end>>)

\* The process is killed while it writes.
Kill ==
  /\ at \in Replacing
  /\ at' = "end" /\ end' = [code |-> 137, class |-> "none", named |-> FALSE]
  /\ Same(<<job, fetch, disk, stdout, config>>)

----------------------------------------------------------------------------
(* serve and validate.                                                     *)

\* resolve_server_config: the flags over the environment.
Overlay(base, flags) ==
  LET rooted == IF flags.root = "none" THEN base ELSE [base EXCEPT !.root = flags.root]
      keyed == IF flags.id = "none" THEN rooted ELSE WithCredentials(rooted, flags.id, flags.secret)
  IN [keyed EXCEPT !.insecure = @ \/ flags.insecure, !.base = IF flags.base THEN "http" ELSE @]

FlagsRefused(flags) == flags.root = "missing" \/ (flags.id = "none") # (flags.secret = "none")

\* from_env, the flags of `serve`, and ensure_storage_is_usable.
ResolveConfig ==
  /\ at = "config"
  /\ IF Accepted(job.env, content) /\ ~FlagsRefused(job.line.flags)
     THEN \E answer \in ProbeAnswers :
       LET resolved == Overlay(FromEnv(job.env), job.line.flags)
       IN IF StorageUsable(resolved, answer)
          THEN /\ config' = [s |-> resolved, probe |-> answer]
               /\ Goes(IF Route(job.line) = "validate" THEN "text" ELSE "bind")
               /\ IF resolved.watched THEN LoadConfig ELSE UNCHANGED watchVars
          ELSE Fails(ExitUsage, "InvalidRequest") /\ UNCHANGED <<config, watchVars>>
     ELSE Fails(ExitUsage, "InvalidRequest") /\ UNCHANGED <<config, watchVars>>
  /\ UNCHANGED <<job, fetch, disk, stdout, sniffVars>>

\* execute_serve: the port, then the summary on standard output, then the server.
Bind ==
  /\ at = "bind"
  /\ \/ stdout' = "written" /\ Goes("serving")
     \/ stdout' \in {"empty", "lost"} /\ Fails(ExitRuntime, "InternalError")
  /\ Same(<<job, fetch, disk, config>>)

\* serve_with_config returns after the drain, or with an error of the listener.
ServeReturns ==
  /\ at = "serving"
  /\ \/ draining /\ Goes("flush")
     \/ Fails(ExitRuntime, "InternalError")
  /\ Same(<<job, fetch, disk, stdout, config>>)

Starting == at \in {"config", "bind", "serving"}

----------------------------------------------------------------------------

CommandInit ==
  /\ job \in Jobs
  /\ file = job.file
  /\ at = IF job.call = NoCall THEN "parse" ELSE "call"
  /\ fetch = [url |-> NoUrl, hops |-> 0, role |-> "none"]
  /\ disk = [out |-> "old", tmp |-> "none", put |-> FALSE, inPlace |-> FALSE]
  /\ stdout = "empty"
  /\ config = [s |-> DefaultConfig, probe |-> "none"]
  /\ end = NotEnded

CommandStep ==
  \/ ParseArgs \/ WriteStdout \/ Flush
  \/ ReadInput \/ Hop \/ Sniffed \/ ReadWatermark \/ SniffWatermark \/ RunTransform
  \/ CheckDestination \/ CreateTemporary \/ FillTemporary \/ RenameTemporary \/ RemoveTemporary
  \/ OpenDirectly \/ PourDirectly
  \/ ResolveConfig \/ Bind
=============================================================================
