----------------------------- MODULE MCEvidence -----------------------------
(* Instances of Evidence: a few captures, trace files and orders. *)
EXTENDS Evidence

Chunk(bytes, dwell) == [bytes |-> bytes, dwell |-> dwell]

CleanCaptures ==
  {<<>>,
   <<Chunk(<<"a", "setbg">>, 2), Chunk(<<"bel", "hi", "lo">>, 0)>>}

AnyCapture == CleanCaptures \cup
  {<<Chunk(<<"a", "hi">>, 2), Chunk(<<"lo">>, 0)>>,
   <<Chunk(<<"a">>, 1), Chunk(<<"b">>, 3), Chunk(<<"b">>, 0)>>}

File(builder) == [ok |-> TRUE, events |-> Finish(builder)]
Hello == RecordOutput(NewBuilder, <<"a", "setbg", "bel">>, 2)

SomeTraces ==
  {File(RecordOutput(RecordResize(Hello, <<"wide">>, 1), <<"b">>, 0)),
   File(RecordResize(Hello, <<"zero">>, 0)),
   File(RecordOutput(Hello, <<"hi">>, 3)),
   File(NewBuilder),
   [ok |-> FALSE, events |-> <<>>]}

TwoContracts == {"a", "b"}

Order(tool, witness, contract, attestation, encoder) ==
  [tool |-> tool, witness |-> witness, contract |-> contract,
   attestation |-> attestation, encoder |-> encoder]

AnyOrder ==
  {Order("record", w, FALSE, "none", "libx264") : w \in BOOLEAN}
  \cup {Order("bundle", w, FALSE, "none", "libx264") : w \in BOOLEAN}
  \cup {Order("render", TRUE, c, a, e) :
          c \in BOOLEAN, a \in {"none", "write", "use"}, e \in {"libx264", "h264_nvenc"}}

RecordOnly == {Order("record", TRUE, FALSE, "none", "libx264")}
=============================================================================
