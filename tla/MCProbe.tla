------------------------------- MODULE MCProbe -------------------------------
(* Command lines around every limit of parse_args, and each path of run_probe. *)
EXTENDS Probe, TLC

A(f, v) == [flag |-> f, value |-> v]
Ids == <<A("vid", 6092), A("pid", 47871)>>
Unit == <<A("in_ep", 132), A("alt_setting", 1)>>
Out == <<A("out_ep", 1)>>
Payload == <<A("write_hex", <<5, 255>>)>>
Stream == <<A("stream", TRUE), A("report_size", 512)>>

Probes == {
  <<>>,                                             \* descriptors
  Unit \o Stream,
  Unit \o <<A("stream", TRUE)>>,                    \* no report size
  <<A("in_ep", 388), A("alt_setting", 1)>> \o Stream, \* 0x184
  Unit \o Stream \o <<A("timeout_ms", 0)>>,
  Unit \o Stream \o <<A("interface", 3)>>,
  Unit \o Out \o Payload \o <<A("write_repeat", 2)>>,
  Unit \o Out \o Payload \o Stream \o <<A("write_repeat", 3), A("write_repeat", 2)>>,
  <<A("alt_setting", 1)>> \o Out \o Payload,         \* no --in-ep
  <<A("alt_setting", 1)>> \o Out \o Payload \o Stream,
  Unit \o Payload,                                  \* no --out-ep
  Unit \o Out \o Payload \o <<A("timeout_ms", 0)>>}

Bridges == {
  Unit,
  Unit \o <<A("report_size", 512)>> \o Out,
  Unit \o <<A("report_size", 512), A("midi_channel", 16), A("input_deadzone", 127),
            A("input_decode", "bit"), A("raw_sysex", TRUE)>>,
  Unit \o <<A("report_size", 512), A("input_debug_buttons", TRUE)>>}

Limits == {
  A("vid", 65536), A("pid", -1), A("in_ep", 256), A("write_repeat", 0),
  A("write_interval_ms", -1), A("write_interval_ms", 0), A("midi_channel", 0), A("midi_channel", 1),
  A("midi_channel", 17), A("input_deadzone", 128), A("input_deadzone", -1), A("timeout_ms", -1),
  A("input_decode", "nibble"), A("write_hex", <<>>), A("write_hex", <<256>>), A("report_size", Bad),
  A("input_debug", TRUE), A("unknown", Bad)}

Line(mode, args) == [mode |-> mode, args |-> args]
Lines ==
  {Line("probe", Ids \o p) : p \in Probes} \cup {Line("bridge", Ids \o b) : b \in Bridges}
    \cup {Line("bridge", Ids \o Unit \o <<a, A("report_size", 512)>>) : a \in Limits}
    \cup {Line("probe", <<A("vid", 6092), A("pid", 0)>>), Line("none", <<>>)}

Addresses == (<<0, 1>> :> {1, 132}) @@ (<<0, 0>> :> {})
=============================================================================
