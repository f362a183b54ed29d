---------------------------- MODULE WasmAdapter ----------------------------
(***************************************************************************)
(* The WebAssembly adapter (src/adapters/wasm.rs): one call of an exported *)
(* function, from its arguments to the value it returns or throws.         *)
(*                                                                         *)
(* A call is [name, declared, options, mark].  declared is "none", "known" *)
(* (file.declared says which type), "unknown" or "unencodable"; options is *)
(* "sound" or the first fault in them; mark likewise, for the watermark    *)
(* and its options.  A value that is returned counts as written to stdout, *)
(* and a call that throws ends with code 1 and the class of the payload.   *)
(***************************************************************************)
EXTENDS CommandLine

Throws(class) == Fails(1, class)
Returns == stdout' = "written" /\ Ends2(0, "none", FALSE)

\* The JSON of the options, then that of the watermark's: both before a byte is read.
CallStarts ==
  /\ at = "call"
  /\ IF job.call.name = "getCapabilitiesJson" THEN Returns
     ELSE /\ IF "junk" \in {job.call.options, job.call.mark} THEN Throws("InvalidOptions") ELSE Goes("declared")
          /\ UNCHANGED stdout
  /\ Same(<<job, fetch, disk, config>>)

\* parse_media_type, which both the declared type and the format go through.
MediaTypeRefusal(value) ==
  CASE value = "unknown" -> "InvalidOptions"
    [] value = "unencodable" -> "UnsupportedOutputMediaType"
    [] OTHER -> "none"

\* sniff_browser_artifact, up to the sniff.
CallDeclares ==
  /\ at = "declared"
  /\ IF MediaTypeRefusal(job.call.declared) = "none" THEN Goes("sniff")
     ELSE Throws(MediaTypeRefusal(job.call.declared))
  /\ Same(<<job, fetch, disk, stdout, config>>)

\* The end of inspectImageJson; a panic is a trap, which carries no payload.
CallSniffed ==
  /\ at = "sniff" /\ sniffed # "none" /\ job.call # NoCall
  /\ IF sniffed = "ok" /\ job.call.name = "inspectImageJson" THEN Returns
     ELSE /\ CASE sniffed = "ok" -> Goes("options")
               [] sniffed = "panic" -> Throws("none")
               [] OTHER -> Throws(sniffed)
          /\ UNCHANGED stdout
  /\ Same(<<job, fetch, disk, config>>)

\* parse_wasm_options: resolve_metadata_flags, the names, the format, the texts.
OptionsRefusal(options) ==
  CASE options \in {"conflict", "name", "text"} -> "InvalidOptions"
    [] OTHER -> MediaTypeRefusal(options)

CallOptions ==
  /\ at = "options"
  /\ IF OptionsRefusal(job.call.options) # "none" THEN Throws(OptionsRefusal(job.call.options))
     ELSE Goes(IF job.call.name = "transformImageWithWatermark" THEN "overlay" ELSE "run")
  /\ Same(<<job, fetch, disk, stdout, config>>)

\* resolve_wasm_watermark: its own sniff, then raster only, position and opacity.
WatermarkRefusal(mark) ==
  CASE mark \in {"svg", "position", "opacity"} -> "InvalidOptions"
    [] mark = "corrupt" -> "DecodeFailed"
    [] mark = "unknown" -> "UnsupportedInputMediaType"
    [] OTHER -> "none"

CallWatermark ==
  /\ at = "overlay"
  /\ IF WatermarkRefusal(job.call.mark) = "none" THEN Goes("run") ELSE Throws(WatermarkRefusal(job.call.mark))
  /\ Same(<<job, fetch, disk, stdout, config>>)

\* build_transform_response.
CallTransforms ==
  /\ at = "run"
  /\ \/ Returns
     \/ \E class \in TransformErrors : Throws(class) /\ UNCHANGED stdout
  /\ Same(<<job, fetch, disk, config>>)

CallStep == CallStarts \/ CallDeclares \/ CallSniffed \/ CallOptions \/ CallWatermark \/ CallTransforms
=============================================================================
