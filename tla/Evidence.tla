------------------------------ MODULE Evidence ------------------------------
(***************************************************************************)
(* Evidence: the files that are made of a recording, and the programs that *)
(* make and check them: `ptyrecord COMMAND`, `ptyrecord --trace-in`,       *)
(* `ptyrender render` and `ptyrender verify`.  Each reads or writes one    *)
(* file at a time; somebody else may change a file, or upgrade the tools,  *)
(* between any two steps.  A hash is its preimage; a value that may be     *)
(* absent is a set of at most one element.                                 *)
(***************************************************************************)
EXTENDS Replay

CONSTANTS Captures,    \* what a live session may produce: <<[bytes, dwell], ...>>
          Traces,      \* trace files that may lie on the disk already
          Contracts,   \* a contract is the text the output has to contain
          Orders,      \* what may be asked for: [tool, witness, contract, attestation, encoder]
          MAX_EDITS    \* bound: changes by somebody else

\* A program is a command line; the rest of an order are its options.  Only
\* `ptyrender render` has one for attestations.
ASSUME OrdersAssumption ==
  \A order \in Orders : /\ order.tool \in {"record", "bundle", "render"}
                        /\ order.tool # "render" => order.attestation = "none"

\* A read of nothing ends the session.
ASSUME CapturesAssumption ==
  \A capture \in Captures :
    capture \in Seq([bytes : Seq(STRING) \ {<<>>}, dwell : Nat])

VARIABLES disk,      \* file -> its contents
          tools,     \* the version of the tools installed
          edits,     \* changes by somebody else so far
          maker,     \* the program that makes files
          verifier   \* the program that checks them

vars == <<disk, tools, edits, maker, verifier>>

The(option) == CHOOSE x \in option : TRUE

\* ToolIdentity::current: the versions, and the hash of the executable that runs, if it
\* can be read.
Identities(program) == [version : {tools}, binary : {{}, {program}}]

\* first_env_diff: a hash that one side does not have fits any.
EnvDiffers(expected, got) ==
  \/ expected.version # got.version
  \/ expected.binary # {} /\ got.binary # {} /\ expected.binary # got.binary

Witness(tool, trace, encoder, output, contract, attestation) ==
  [tool |-> tool, trace_sha256 |-> trace, encoder |-> encoder, output_sha256 |-> output,
   contract_sha256 |-> contract, attestation_sha256 |-> attestation]

\* encode: ffmpeg is handed the frames and how long each lasts; a hardware
\* encoder gives other bytes every time.
Encodings(frames, encoder) ==
  IF encoder = "libx264" THEN {[frames |-> frames, noise |-> 0]}
  ELSE {[frames |-> frames, noise |-> k] : k \in 1..2}

\* Render::execute succeeds.
Renders(trace) == Replayable(trace) /\ ReplayTrace(trace) # <<>>

\* The witness of a file that is there already.
Rendered(trace) ==
  Witness([version |-> 0, binary |-> {"ptyrender"}], trace, "libx264",
          The(Encodings(ReplayTrace(trace), "libx264")), {}, {})

\* A trace nobody could render has no witness.
Init ==
  \E order \in Orders, trace \in Traces, capture \in Captures, contract \in Contracts :
    /\ order.tool = "bundle" /\ order.witness => Renders(trace)
    /\ disk = [trace       |-> IF order.tool = "record" THEN {} ELSE {trace},
               media       |-> IF order.tool = "bundle"
                               THEN Encodings(ReplayTrace(trace), "libx264") ELSE {},
               witness     |-> IF order.tool = "bundle" /\ order.witness
                               THEN {Rendered(trace)} ELSE {},
               contract    |-> {contract},
               attestation |-> IF order.attestation = "use" THEN {[target_sha256 |-> trace]} ELSE {},
               bundle      |-> {}]
    /\ tools = 0
    /\ edits = 0
    /\ maker = [order |-> order, pc |-> order.tool,
                capture |-> IF order.tool = "record" THEN capture ELSE <<>>,
                hash |-> {}, trace |-> {}, media |-> {}, witness |-> {},
                contract |-> {}, attestation |-> {}, tool |-> {}]
    /\ verifier = [pc |-> "idle", given |-> {}, witness |-> {}, contract |-> {},
                   attestation |-> {}, trace |-> {}, verdict |-> "none"]

-----------------------------------------------------------------------------
(* The programs that make files. *)

Go(pc) == maker' = [maker EXCEPT !.pc = pc]
Fails  == Go("failed") /\ UNCHANGED disk

\* ptyrecord COMMAND: the capture is over; the trace is written.
WriteTrace ==
  /\ maker.pc = "record"
  /\ disk' = [disk EXCEPT !.trace = {TraceOf(maker.capture)}]
  /\ Go("stitch")

\* The frames painted during the capture are encoded.
EncodeStitched ==
  /\ maker.pc = "stitch"
  /\ IF maker.capture = <<>> THEN Fails
     ELSE /\ disk' = [disk EXCEPT !.media = Encodings(Stitch(maker.capture), "libx264")]
          /\ Go(IF maker.order.witness THEN "witnessTrace" ELSE "bundleTrace")

\* from_rendered_output: two files, read one after the other.
WitnessTrace ==
  /\ maker.pc = "witnessTrace"
  /\ maker' = [maker EXCEPT !.pc = "witnessMedia", !.trace = disk.trace]
  /\ UNCHANGED disk

WitnessMedia ==
  /\ maker.pc = "witnessMedia"
  /\ \E tool \in Identities("ptyrecord") :
       LET witness == Witness(tool, The(maker.trace), "libx264", The(disk.media), {}, {})
       IN  /\ maker' = [maker EXCEPT !.pc = "bundleTrace", !.witness = {witness}]
           /\ disk' = [disk EXCEPT !.witness = {witness}]

\* ptyrecord --trace-in: the witness of earlier.
LoadWitness ==
  /\ maker.pc = "bundle"
  /\ maker' = [maker EXCEPT !.pc = "bundleTrace", !.witness = disk.witness]
  /\ UNCHANGED disk

\* from_paths: the trace, the media, and what they have to agree with.
BundleTrace ==
  /\ maker.pc = "bundleTrace"
  /\ maker' = [maker EXCEPT !.pc = "bundleMedia", !.trace = disk.trace]
  /\ UNCHANGED disk

CarelessMutant(witness, trace, media) ==   \* the trace is taken on trust
  witness.output_sha256 = media

Agrees(witness, trace, media) ==
  witness.trace_sha256 = trace /\ witness.output_sha256 = media

BundleMedia ==
  /\ maker.pc = "bundleMedia"
  /\ maker' = [maker EXCEPT !.media = disk.media,
                 !.pc = IF /\ Replayable(The(maker.trace))
                           /\ \A w \in maker.witness : Agrees(w, The(maker.trace), The(disk.media))
                        THEN "writeBundle" ELSE "failed"]
  /\ UNCHANGED disk

WriteBundle ==
  /\ maker.pc = "writeBundle"
  /\ disk' = [disk EXCEPT !.bundle = {[trace |-> The(maker.trace), media |-> The(maker.media),
                                       witness |-> maker.witness,
                                       transcript |-> Transcript(The(maker.trace))]}]
  /\ Go("done")

\* ptyrender render: the trace is hashed for the attestation, and read again
\* to be rendered.
HashTrace ==
  /\ maker.pc = "render"
  /\ maker' = [maker EXCEPT !.pc = "load", !.hash = disk.trace]
  /\ UNCHANGED disk

LoadTrace ==
  /\ maker.pc = "load"
  /\ IF The(disk.trace).ok
     THEN maker' = [maker EXCEPT !.pc = "hashContract", !.trace = disk.trace]
     ELSE Go("failed")
  /\ UNCHANGED disk

HashContract ==
  /\ maker.pc = "hashContract"
  /\ maker' = [maker EXCEPT !.pc = "attest",
                            !.contract = IF maker.order.contract THEN disk.contract ELSE {}]
  /\ UNCHANGED disk

\* write_attestation: written beside its place and renamed into it; or one
\* that is there already, if it is for the trace that was hashed.
Attest ==
  /\ maker.pc = "attest"
  /\ LET mine == {[target_sha256 |-> The(maker.hash)]}
     IN  \/ /\ maker.order.attestation = "write"
            /\ disk' = [disk EXCEPT !.attestation = mine]
            /\ maker' = [maker EXCEPT !.pc = "paint", !.attestation = mine]
         \/ /\ maker.order.attestation = "use"
            /\ maker' = [maker EXCEPT !.pc = IF disk.attestation = mine THEN "paint" ELSE "failed",
                                      !.attestation = disk.attestation]
            /\ UNCHANGED disk
         \/ /\ maker.order.attestation = "none"
            /\ Go("paint")
            /\ UNCHANGED disk

\* to_path_with_receipt: the identity of the tools, then the media.
RenderMedia ==
  /\ maker.pc = "paint"
  /\ IF Renders(The(maker.trace))
     THEN /\ \E media \in Encodings(ReplayTrace(The(maker.trace)), maker.order.encoder) :
               disk' = [disk EXCEPT !.media = {media}]
          /\ \E tool \in Identities("ptyrender") :
               maker' = [maker EXCEPT !.pc = "receipt", !.tool = {tool}]
     ELSE Fails

\* The media is read back for its hash.
WriteReceipt ==
  /\ maker.pc = "receipt"
  /\ disk' = [disk EXCEPT !.witness =
                {Witness(The(maker.tool), The(maker.trace), maker.order.encoder,
                         The(disk.media), maker.contract, maker.attestation)}]
  /\ Go("done")

Make ==
  /\ \/ WriteTrace \/ EncodeStitched \/ WitnessTrace \/ WitnessMedia
     \/ LoadWitness \/ BundleTrace \/ BundleMedia \/ WriteBundle
     \/ HashTrace \/ LoadTrace \/ HashContract \/ Attest \/ RenderMedia \/ WriteReceipt
  /\ UNCHANGED <<tools, edits, verifier>>

-----------------------------------------------------------------------------
(* ptyrender verify. *)

Verdict(verdict) == [verifier EXCEPT !.pc = "done", !.verdict = verdict]
Proceed(pc)      == [verifier EXCEPT !.pc = pc]

\* What the witness claims has to be supplied.
ReadWitness ==
  /\ verifier.pc = "idle"
  /\ disk.witness # {}
  /\ \E given \in SUBSET {"contract", "attestation"} :
       /\ "attestation" \in given => disk.attestation # {}
       /\ LET w == The(disk.witness)
          IN  verifier' = [verifier EXCEPT !.given = given, !.witness = {w},
                !.pc = IF \/ w.contract_sha256 # {} /\ "contract" \notin given
                          \/ w.attestation_sha256 # {} /\ "attestation" \notin given
                       THEN "done" ELSE "contract",
                !.verdict = IF w.contract_sha256 # {} /\ "contract" \notin given
                            THEN "contractRequired"
                            ELSE IF w.attestation_sha256 # {} /\ "attestation" \notin given
                            THEN "attestationRequired" ELSE "none"]

\* read_spec_claim.
ReadContract ==
  /\ verifier.pc = "contract"
  /\ verifier' =
       IF "contract" \notin verifier.given THEN Proceed("attestation")
       ELSE IF The(verifier.witness).contract_sha256 \in {{}, disk.contract}
       THEN [Proceed("attestation") EXCEPT !.contract = disk.contract]
       ELSE Verdict("contractDiffers")

\* verify_attestation_claim.
ReadAttestation ==
  /\ verifier.pc = "attestation"
  /\ LET w == The(verifier.witness)
     IN  verifier' =
           IF "attestation" \notin verifier.given THEN Proceed("trace")
           ELSE IF w.attestation_sha256 \notin {{}, disk.attestation}
           THEN Verdict("attestationDiffers")
           ELSE IF The(disk.attestation).target_sha256 # w.trace_sha256
           THEN Verdict("attestationTargetDiffers")
           ELSE [Proceed("trace") EXCEPT !.attestation = disk.attestation]

\* verify_b: the trace, the tools and the encoder, before anything is run.
CompareTrace ==
  /\ verifier.pc = "trace"
  /\ LET w == The(verifier.witness)
     IN  \E current \in Identities("ptyrender") :
           verifier' = IF w.trace_sha256 # The(disk.trace) THEN Verdict("traceDiffers")
                       ELSE IF EnvDiffers(w.tool, current) THEN Verdict("environmentDiffers")
                       ELSE IF w.encoder # "libx264" THEN Verdict("encoderNotVerifiable")
                       ELSE [Proceed("render") EXCEPT !.trace = disk.trace]

ReadAgainMutant == The(disk.trace)

\* The bytes that were hashed are the bytes that are rendered.
RenderedAgain == The(verifier.trace)

Rerender ==
  /\ verifier.pc = "render"
  /\ verifier' = IF ~ Renders(RenderedAgain) THEN Verdict("error")
                 ELSE IF The(verifier.witness).output_sha256
                           \notin Encodings(ReplayTrace(RenderedAgain), "libx264")
                 THEN Verdict("outputDiffers")
                 ELSE IF verifier.contract = {} THEN Verdict("match")
                 ELSE Proceed("predicates")

\* verify_contract_bytes reads the trace once more.
CheckContract ==
  /\ verifier.pc = "predicates"
  /\ LET trace == The(disk.trace)
         text  == FlattenSeq([i \in DOMAIN Outputs(trace) |-> Outputs(trace)[i].data])
     IN  verifier' = IF ~ trace.ok THEN Verdict("error")
                     ELSE IF The(verifier.contract) \in Range(text) THEN Verdict("match")
                     ELSE Verdict("contractFailed")

Verify ==
  /\ \/ ReadWitness \/ ReadContract \/ ReadAttestation
     \/ CompareTrace \/ Rerender \/ CheckContract
  /\ UNCHANGED <<disk, tools, edits, maker>>

-----------------------------------------------------------------------------
(* Somebody else: another run of these programs, or an editor. *)

EditsFile(file, contents) ==
  /\ disk[file] # {}
  /\ disk[file] # {contents}
  /\ disk' = [disk EXCEPT ![file] = {contents}]
  /\ UNCHANGED tools

SomebodyElse ==
  /\ edits < MAX_EDITS
  /\ edits' = edits + 1
  /\ \/ \E trace \in Traces : EditsFile("trace", trace)
     \/ \E trace \in Traces : /\ Replayable(trace)
                             /\ EditsFile("media", The(Encodings(ReplayTrace(trace), "libx264")))
     \/ \E trace \in Traces : EditsFile("attestation", [target_sha256 |-> trace])
     \/ \E contract \in Contracts : EditsFile("contract", contract)
     \/ tools' = 1 - tools /\ UNCHANGED disk
  /\ UNCHANGED <<maker, verifier>>

Next == Make \/ Verify \/ SomebodyElse

Spec == Init /\ [][Next]_vars

-----------------------------------------------------------------------------
(* PtyRecord::validate: everything the bundle says of itself. *)
Validates(bundle) ==
  /\ Replayable(bundle.trace)
  /\ bundle.transcript = Transcript(bundle.trace)
  /\ \A w \in bundle.witness : /\ w.trace_sha256 = bundle.trace
                               /\ w.output_sha256 = bundle.media

\* A bundle that is written can be read: whoever replaces the trace or the
\* media while it is made, the witness in it is one for the trace and the
\* media in it.
BundleValidates == \A bundle \in disk.bundle : Validates(bundle)

\* A match is proof: the trace the witness names can be rendered and gives the
\* media it names, and an attestation the verifier was given speaks of that
\* trace, whatever was replaced while the programs ran.
MatchReproduces ==
  verifier.verdict = "match" =>
    LET w == The(verifier.witness)
    IN  /\ Renders(w.trace_sha256)
        /\ w.output_sha256 \in Encodings(ReplayTrace(w.trace_sha256), w.encoder)
        /\ \A a \in verifier.attestation : a.target_sha256 = w.trace_sha256
        /\ w.attestation_sha256 # {} => w.attestation_sha256 = verifier.attestation

\* A difference is news: when nobody touched the files or the tools, the
\* witness agrees with them -- that of a live recording, if no read cut a
\* character and the frames lie whole milliseconds apart.  It only does not
\* agree with the executable that checks it: that is ptyrender, and the hash
\* is ptyrecord's.
NoFalseAlarm ==
  /\ edits = 0
  /\ maker.order.tool = "record" => CleanCapture(maker.capture)
  => /\ verifier.verdict \notin {"traceDiffers", "outputDiffers", "contractDiffers",
                                 "attestationDiffers", "attestationTargetDiffers", "error"}
     /\ verifier.verdict = "environmentDiffers" =>
          The(verifier.witness).tool.binary = {"ptyrecord"}

\* What src/crates/ptyrecord/src/lib.rs:102-104 says of LiveFrameStitcher, that
\* its frames and timing "are equivalent to `replay(trace)`": not when a read ends
\* inside a character, which the trace loses, or when frames are closer than a
\* millisecond, which the two round differently.
StitchedAsReplayed ==
  maker.order.tool = "record" /\ maker.pc = "done" /\ edits = 0 =>
    The(disk.media).frames = ReplayTrace(The(disk.trace))

\* What docs/ptyrecord-format.md:110-111 says of the witness in a bundle, that it "is the
\* same render witness produced by" ptyrender, and docs/determinism-audit.md:132 of the
\* hash in it, that it is "of the ptyrender binary itself": not when ptyrecord made it.
WitnessIsRenderers ==
  edits = 0 => verifier.verdict # "environmentDiffers"
=============================================================================
