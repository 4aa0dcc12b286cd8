---------------------------- MODULE ChannelCodec ----------------------------
(***************************************************************************)
(* What of a document of the configurator reaches the device, and what of  *)
(* it comes back: the settings each dialog writes, the keys the serializer *)
(* (models/binary_config.py) reads in the order of the bytes it packs, the *)
(* fields (shared/python/channel_config.py) those bytes are read back as,  *)
(* and the keys the reader (controllers/device_controller.py) returns.     *)
(*                                                                         *)
(* Values are traced, not computed.  A value is known by the setting it    *)
(* was given to (a field that holds a value of another setting has got the *)
(* wrong one), by how often it has been scaled up, and by what the integer *)
(* field it is packed into does to it: the field holds an exact value as   *)
(* it is; of a rough one it holds a part, for a fraction of its unit is    *)
(* cut off, and so are the points of a table behind the sixteenth; a value *)
(* outside the range of the field, or a word, raises.  Timer modes and     *)
(* logic operations, which are translated both ways, are the names and     *)
(* codes of the source.                                                    *)
(***************************************************************************)
EXTENDS Naturals, Sequences, FiniteSets, SequencesExt

CONSTANTS
    PacketLimit,   \* bytes of configuration in the only packet of an upload
    NameLength     \* bytes of a channel's name

ASSUME CodecAssumption == PacketLimit \in Nat /\ NameLength \in Nat

Value(of, form) == [of |-> of, form |-> form, times |-> 1]
Default == Value("default", "exact")   \* what the serializer packs for a key that is absent
-----------------------------------------------------------------------------
\* The order of the tree, which is the order of get_all_channels.
TreeOrder == <<"digital_input", "analog_input", "power_output", "hbridge", "can_rx",
               "can_tx", "logic", "number", "table_2d", "table_3d", "switch", "timer",
               "filter", "lua_script", "pid">>
Rank(kind) == CHOOSE i \in DOMAIN TreeOrder : TreeOrder[i] = kind

\* Of the settings a dialog returns, those whose key the serializer looks for.
\* All others (the operation and the limits of a number, the type and window of
\* a filter, ...) are one setting, "unsent".  The input channels under the keys
\* the serializer reads are the "refs" of the channel.
DigitalInputDialog == {"debounce_ms"}
AnalogInputDialog  == {}
OutputDialog       == {"pins", "source_channel", "inrush_time_ms", "retry_count", "soft_start_ms"}
HBridgeDialog      == {"source_channel"}
CanInputDialog     == {"start_bit", "bit_length", "byte_order", "offset"}
CanOutputDialog    == {"dlc", "is_extended"}
LogicDialog        == {"operation", "constant"}
NumberDialog       == {"constant_value"}
Table2DDialog      == {"x_values", "output_values"}
SwitchDialog       == {"first_state", "last_state"}
TimerDialog        == {"limit"}
FilterDialog       == {"time_constant"}
PidDialog          == {"kp", "ki", "kd", "output_min", "output_max"}

Dialog == [digital_input |-> DigitalInputDialog, analog_input |-> AnalogInputDialog,
           power_output |-> OutputDialog, hbridge |-> HBridgeDialog, can_rx |-> CanInputDialog,
           can_tx |-> CanOutputDialog, logic |-> LogicDialog, number |-> NumberDialog,
           table_2d |-> Table2DDialog, table_3d |-> {}, switch |-> SwitchDialog,
           timer |-> TimerDialog, filter |-> FilterDialog, lua_script |-> {}, pid |-> PidDialog]

\* The keys in the order in which the serializer packs their values.
PackedHardware ==
    [digital_input |-> <<"active_high", "use_pullup", "debounce_ms">>,
     analog_input  |-> <<"raw_min", "raw_max", "scaled_min", "scaled_max", "filter_ms",
                         "filter_type", "samples">>,
     can_rx        |-> <<"can_id", "bus", "start_bit", "bit_length", "byte_order", "is_signed",
                         "is_extended", "scale_num", "scale_den", "offset", "timeout_ms">>]
PackedOutputs ==
    [power_output  |-> <<"current_limit_ma", "inrush_limit_ma", "inrush_time_ms", "retry_count",
                         "retry_delay_s", "pwm_frequency", "soft_start_ms", "flags">>,
     hbridge       |-> <<"frequency_hz", "deadband_us", "max_rate">>,
     can_tx        |-> <<"can_id", "bus", "dlc", "start_bit", "bit_length", "byte_order",
                         "is_extended", "period_ms", "scale_num", "scale_den", "offset">>]
PackedVirtual ==
    [timer         |-> <<"timer_mode", "limit">>,
     logic         |-> <<"operation", "compare_value", "invert_output">>,
     filter        |-> <<"time_constant">>,
     table_2d      |-> <<"x_values", "output_values">>,
     table_3d      |-> <<>>,
     switch        |-> <<"first_state", "last_state", "default_value">>,
     number        |-> <<"constant_value", "min_value", "max_value", "step">>,
     pid           |-> <<"kp", "ki", "kd", "output_min", "output_max">>]
Packed(kind) ==
    IF kind \in DOMAIN PackedHardware THEN PackedHardware[kind]
    ELSE IF kind \in DOMAIN PackedOutputs THEN PackedOutputs[kind] ELSE PackedVirtual[kind]

\* Mutant: the gains of a controller are declared in another order.
SwappedVirtualFields ==
    [timer         |-> <<"timer_mode", "limit">>,
     logic         |-> <<"operation", "compare_value", "invert_output">>,
     filter        |-> <<"time_constant">>,
     table_2d      |-> <<"x_values", "output_values">>,
     number        |-> <<"constant_value", "min_value", "max_value", "step">>,
     pid           |-> <<"kp", "kd", "ki", "output_min", "output_max">>]

\* The fields of the structures, under the key the reader gives them.  There
\* is no structure for H-bridges, CAN outputs, switches and 3D tables.
HardwareFields ==
    [digital_input |-> PackedHardware.digital_input,
     analog_input  |-> PackedHardware.analog_input,
     can_rx        |-> PackedHardware.can_rx,
     power_output  |-> <<"current_limit_ma", "inrush_time_ms", "inrush_limit_ma", "retry_count",
                         "retry_delay_s", "pwm_frequency", "soft_start_ms", "flags">>]
VirtualFields ==
    [timer         |-> <<"timer_mode", "limit">>,
     logic         |-> <<"operation", "compare_value", "invert_output">>,
     filter        |-> <<"time_constant">>,
     table_2d      |-> <<"x_values", "output_values">>,
     number        |-> <<"constant_value", "min_value", "max_value", "step">>,
     pid           |-> <<"kp", "ki", "kd", "output_min", "output_max">>]
HasFields(kind) == kind \in DOMAIN HardwareFields \cup DOMAIN VirtualFields
Fields(kind) == IF kind \in DOMAIN HardwareFields THEN HardwareFields[kind] ELSE VirtualFields[kind]

\* Fields that _parse_channel_config leaves out.
NotReturned == [analog_input |-> {"filter_type"},
                can_rx |-> {"byte_order", "is_signed", "scale_num", "scale_den", "offset", "timeout_ms"}]
Returned(kind) ==
    ToSet(Fields(kind)) \ (IF kind \in DOMAIN NotReturned THEN NotReturned[kind] ELSE {})

ConfigSize == [digital_input |-> 4, analog_input |-> 20, power_output |-> 12, hbridge |-> 10,
               can_rx |-> 18, can_tx |-> 18, timer |-> 16, logic |-> 26, filter |-> 8,
               table_2d |-> 68, table_3d |-> 0, switch |-> 104, number |-> 20, pid |-> 22]
-----------------------------------------------------------------------------
\* _serialize_timer and _timer_mode_name.
ModeCode == [count_up |-> "0", count_down |-> "1", one_shot |-> "4", retriggerable |-> "5",
             delay |-> "0", pulse |-> "2", blink |-> "3", monostable |-> "6", default |-> "1"]
ModeName(code) == CASE code = "1" -> "retriggerable" [] code = "2" -> "delay"
                    [] code = "3" -> "pulse" [] code = "4" -> "blink" [] OTHER -> "one_shot"

\* _serialize_logic and _logic_op_name.
OpCode == [and |-> "00", or |-> "01", xor |-> "02", nand |-> "03", nor |-> "04",
           is_true |-> "06", is_false |-> "07", greater |-> "10", greater_equal |-> "11",
           less |-> "12", less_equal |-> "13", equal |-> "14", not_equal |-> "15",
           range |-> "20", outside |-> "21", edge_rising |-> "30", edge_falling |-> "31",
           changed |-> "32", hysteresis |-> "33", set_reset_latch |-> "34", toggle |-> "35",
           pulse |-> "36", flash |-> "37", default |-> "06"]
ShownOps == {"and", "or", "xor", "nand", "nor", "is_false", "greater", "greater_equal", "less",
             "less_equal", "equal", "not_equal", "range", "outside", "is_true"}
OpName(code) ==
    IF \E op \in ShownOps : OpCode[op] = code
    THEN CHOOSE op \in ShownOps : OpCode[op] = code
    ELSE "is_true"

\* The factor between a setting and its field: fixed-point numbers.  The
\* constant of the dialog of a logic channel is a float and scaled; it comes
\* back, as "compare_value", with no scale taken off.
Scale(key) == IF key \in {"kp", "ki", "kd", "time_constant"} THEN 1000
              ELSE IF key \in {"constant_value", "constant"} THEN 100 ELSE 1

Encoded(key, value) ==
    CASE key = "timer_mode" -> [value EXCEPT !.of = ModeCode[value.of]]
      [] key = "operation"  -> [value EXCEPT !.of = OpCode[value.of]]
      [] OTHER -> [value EXCEPT !.times = @ * Scale(key), !.form = IF @ = "rough" THEN "cut" ELSE @]
Decoded(key, value) ==
    CASE key = "timer_mode" -> [value EXCEPT !.of = ModeName(value.of)]
      [] key = "operation"  -> [value EXCEPT !.of = OpName(value.of)]
      [] OTHER -> [value EXCEPT !.times = @ \div Scale(key)]
-----------------------------------------------------------------------------
\* A channel: its number (0 when the dialog gave none), the numbers of its
\* inputs and the settings that are present, each with its value.
Setting(c, key) == IF key \in DOMAIN c.settings THEN c.settings[key] ELSE Default

\* _serialize_logic takes the dialog's constant for a missing "compare_value".
KeyFor(c, key) ==
    IF key = "compare_value" /\ key \notin DOMAIN c.settings /\ "constant" \in DOMAIN c.settings
    THEN "constant" ELSE key
PackedValue(c, key) == Encoded(KeyFor(c, key), Setting(c, KeyFor(c, key)))

\* serialize_ui_channels_for_executor: a channel without a number is left out,
\* and so is a kind the device does not know.
Sendable(c) == c.id # 0 /\ c.kind \in DOMAIN ConfigSize

Wired == {"digital_input", "analog_input", "power_output", "hbridge"}

\* int() of a word (the byte order of the CAN dialog) and a value that its field
\* cannot hold raise: the channel is sent without its configuration.
Raises(c) ==
    \E i \in DOMAIN Packed(c.kind) :
        PackedValue(c, Packed(c.kind)[i]).form \in {"outside", "word"}

PackedChannel(c) ==
    [id     |-> c.id,
     kind   |-> c.kind,
     source |-> Setting(c, "source_channel"),
     pin    |-> IF c.kind \in Wired THEN Setting(c, "pins") ELSE Default,
     refs   |-> c.refs,
     config |-> IF Raises(c) THEN <<>>
                ELSE [i \in DOMAIN Packed(c.kind) |-> PackedValue(c, Packed(c.kind)[i])]]

SizeOf(p) == 14 + NameLength + (IF p.config = <<>> THEN 0 ELSE ConfigSize[p.kind])

InTreeOrder(c, d) ==
    Rank(c.kind) < Rank(d.kind) \/ (c.kind = d.kind /\ c.id < d.id)

Sent(document) ==
    LET channels == {c \in document : Sendable(c)}
        Nth(n) == CHOOSE c \in channels :
                      Cardinality({d \in channels : InTreeOrder(d, c)}) = n - 1
    IN  [n \in 1 .. Cardinality(channels) |-> PackedChannel(Nth(n))]

\* The bytes of a configuration up to its n-th channel, the count included.
Length(packed, n) ==
    LET bytes[i \in 0 .. n] == IF i = 0 THEN 2 ELSE bytes[i - 1] + SizeOf(packed[i])
    IN  bytes[n]

\* upload_config, build_packet: one packet, silently cut at its limit.  The
\* count still announces all channels.
Image(document) ==
    LET packed == Sent(document)
        fit == {n \in 0 .. Len(packed) : Length(packed, n) <= PacketLimit}
    IN  [count |-> Len(packed), channels |-> SubSeq(packed, 1, Cardinality(fit) - 1)]

Blank == [count |-> 0, channels |-> <<>>]
Whole(image) == Len(image.channels) = image.count
-----------------------------------------------------------------------------
\* _channel_to_dict: what a packed channel comes back as.
Back(p) ==
    LET parsed == HasFields(p.kind) /\ p.config # <<>>
        At(key) == CHOOSE i \in DOMAIN Fields(p.kind) : Fields(p.kind)[i] = key
        Read(key) == CASE key = "source_channel" -> p.source
                       [] key = "pins" -> p.pin
                       [] OTHER -> Decoded(key, p.config[At(key)])
        keys == {key \in {"source_channel", "pins"} : Read(key) # Default}
                \cup (IF parsed THEN Returned(p.kind) ELSE {})
    IN  [id |-> p.id, kind |-> p.kind, refs |-> IF parsed THEN p.refs ELSE {},
         settings |-> [key \in keys |-> Read(key)]]

\* _create_missing_referenced_channels: an input that is not in what was read
\* is added, without the key "pins".
Follows == {"logic", "timer", "filter", "table_2d", "table_3d", "pid"}
Placeholder(id) ==
    LET known == IF id \in 50 .. 57 THEN {"debounce_ms", "active_high", "use_pullup"}
                 ELSE IF id \in 0 .. 19 THEN {"raw_min", "raw_max", "scaled_min", "scaled_max"}
                 ELSE {}
    IN  [id |-> id, kind |-> IF id \in 0 .. 19 THEN "analog_input" ELSE "digital_input",
         refs |-> {}, settings |-> [key \in known |-> Value(key, "exact")]]

\* _load_config_from_device: the document made of what was read.
Loaded(image) ==
    LET read == {Back(image.channels[i]) : i \in DOMAIN image.channels}
        missing == UNION {c.refs : c \in {d \in read : d.kind \in Follows}} \ {c.id : c \in read}
    IN  read \cup {Placeholder(id) : id \in missing}

\* A channel as its dialog returns it, with the forms of the values that are
\* not exact.
Drawn(kind, id, refs, forms) ==
    LET FormOf(key) == IF key \in DOMAIN forms THEN forms[key] ELSE "exact"
    IN  [id |-> id, kind |-> kind, refs |-> refs,
         settings |-> [key \in Dialog[kind] \cup {"unsent"} |->
                          Value(IF key = "operation" THEN "greater" ELSE key, FormOf(key))]]
-----------------------------------------------------------------------------
(* The documents of which something can be said.                           *)

\* As the tree keeps them: finitely many channels of the kinds it shows, no two
\* of one kind with one number.
Numbered(document) ==
    /\ IsFiniteSet(document)
    /\ \A c \in document : c.kind \in ToSet(TreeOrder) /\ c.id \in Nat
    /\ \A c, d \in document : c.kind = d.kind /\ c.id = d.id => c = d

\* What makes the round trip: the inputs of these kinds, and under these keys
\* each value that is exact, an operation if the reader has a name for it.
Kept == [digital_input |-> {"debounce_ms", "active_high", "use_pullup"},
         logic         |-> {"operation", "compare_value", "invert_output"},
         number        |-> {"constant_value", "min_value", "max_value", "step"},
         filter        |-> {"time_constant"},
         table_2d      |-> {"x_values", "output_values"},
         pid           |-> {"kp", "ki", "kd", "output_min", "output_max"}]
Exact(key, value) ==
    /\ value = [of |-> value.of, form |-> "exact", times |-> value.times]
    /\ value.times \in Nat
    /\ key = "operation" => value.of \in ShownOps

\* The document has the channel, with what of it makes the round trip.
HasKept(document, c) ==
    \E d \in document :
        /\ d.id = c.id /\ d.kind = c.kind /\ d.refs = c.refs
        /\ \A key \in Kept[c.kind] \cap DOMAIN c.settings :
              Exact(key, c.settings[key]) =>
                  key \in DOMAIN d.settings /\ d.settings[key] = c.settings[key]
=============================================================================
