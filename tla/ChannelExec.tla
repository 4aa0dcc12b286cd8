---------------------------- MODULE ChannelExec ----------------------------
(***************************************************************************)
(* The channel executor, firmware/src/pmu_channel_exec.c: virtual channels *)
(* (logic and timers) evaluated in table order every millisecond, and the  *)
(* links that copy a channel to a hardware output.  A channel's            *)
(* configuration lives in config_storage, which is handed out from one end *)
(* and given back only by Clear.                                           *)
(*                                                                         *)
(* The outputs are those of the Nucleo build: reported is what             *)
(* PMU_PROFET_GetState answers (stub_channels), pins what                  *)
(* NucleoOutput_SetState drives.  Configuration entries are records, a     *)
(* blob is the entry count of its header with the entries it really holds. *)
(***************************************************************************)
EXTENDS Integers, Sequences, SequencesExt

CONSTANTS
    Ids,               \* channel ids a configuration uses
    Inputs,            \* ids of the digital inputs in the channel registry
    NoRef,             \* 0 and 0xFFFF: no channel
    NumOutputs,        \* PMU30_NUM_OUTPUTS (30)
    NumPins,           \* outputs that have a pin (6)
    MaxChannels,       \* PMU_EXEC_MAX_CHANNELS (16)
    MaxLinks,          \* PMU_MAX_OUTPUT_LINKS (32)
    StorageSize,       \* sizeof(config_storage)
    SizeOf,            \* aligned size of a configuration, by channel type
    ClockMod,          \* 2^32: HAL_GetTick is a uint32_t
    MaxDelay,          \* longest delay_ms
    Blobs              \* configurations that can be loaded

VirtualTypes == {"LOGIC", "TIMER", "OTHER"}
Rules == {"IS_TRUE", "IS_FALSE", "COUNT_UP", "COUNT_DOWN", "PULSE", "NONE"}
Entry == [id : Ids \cup {NoRef}, type : VirtualTypes \cup {"POWER_OUTPUT", "UNSUPPORTED"},
          source : Ids \cup Inputs \cup {NoRef}, rule : Rules, delay : 0 .. MaxDelay,
          hw : Nat]

ASSUME ExecAssumption ==
    /\ {NumOutputs, NumPins, MaxChannels, MaxLinks, StorageSize} \subseteq Nat
    /\ MaxDelay \in Nat \ {0}
    /\ NumPins <= NumOutputs
    /\ ClockMod \in Nat /\ ClockMod > MaxDelay
    /\ SizeOf \in [VirtualTypes -> Nat \ {0}]
    /\ NoRef \notin Ids \cup Inputs /\ Ids \cap Inputs = {}
    /\ \A b \in Blobs : b.count \in Nat /\ b.entries \in Seq(Entry)

VARIABLES
    exec,      \* the channel and link tables and config_storage_used
    outputs,   \* stub_channels[].state and the output pins
    din,       \* g_digital_inputs, as the channel registry holds them
    clock      \* g_soft_tick_ms

execVars == <<exec, outputs, din, clock>>
-----------------------------------------------------------------------------
Hardware == 0 .. NumOutputs - 1
Pins == 0 .. NumPins - 1

EmptyExec == [channels |-> <<>>, links |-> <<>>, used |-> 0]
AllOff == [reported |-> [h \in Hardware |-> FALSE], pins |-> [h \in Pins |-> FALSE]]

\* FindChannel: the table positions with this id, of which the first counts.
Positions(channels, id) == {i \in DOMAIN channels : channels[i].id = id}
FirstOf(S) == CHOOSE i \in S : \A j \in S : i <= j

HasRoom(x, e) ==
    /\ Len(x.channels) < MaxChannels
    /\ x.used + SizeOf[e.type] <= StorageSize

\* PMU_ChannelExec_AddChannel, with AllocConfig.
AddChannel(x, e) ==
    IF ~HasRoom(x, e) THEN x
    ELSE [x EXCEPT !.used = @ + SizeOf[e.type],
                   !.channels = Append(@,
                        [id |-> e.id, type |-> e.type, rule |-> e.rule, source |-> e.source,
                         delay |-> e.delay, enabled |-> TRUE, value |-> 0, addr |-> x.used,
                         running |-> FALSE, start |-> 0, elapsed |-> 0, last |-> FALSE])]

AddOutputLink(x, e) ==
    IF Len(x.links) >= MaxLinks THEN x
    ELSE [x EXCEPT !.links = Append(@, [id |-> e.id, source |-> e.source, hw |-> e.hw])]

\* Mutant: the storage of a removed channel is handed out again.
RemoveAndRelease(x, id) ==
    IF Positions(x.channels, id) = {} THEN x
    ELSE LET i == FirstOf(Positions(x.channels, id))
         IN  [x EXCEPT !.channels = RemoveAt(@, i),
                       !.used = @ - SizeOf[x.channels[i].type]]

\* Mutant: the channels behind the removed one are dropped, not shifted.
RemoveRest(x, id) ==
    IF Positions(x.channels, id) = {} THEN x
    ELSE [x EXCEPT !.channels = SubSeq(@, 1, FirstOf(Positions(@, id)) - 1)]

\* PMU_ChannelExec_RemoveChannel: neither the storage nor the links of the
\* channel are released.
RemoveChannel(x, id) ==
    IF Positions(x.channels, id) = {} THEN x
    ELSE [x EXCEPT !.channels = RemoveAt(@, FirstOf(Positions(@, id)))]

\* One entry of a configuration, as LoadConfig and SET_CHANNEL_CONFIG add it.
AddEntry(x, e) ==
    CASE e.type \in VirtualTypes -> AddChannel(x, e)
      [] e.type = "POWER_OUTPUT" /\ e.source # NoRef -> AddOutputLink(x, e)
      [] OTHER -> x

LoadEntry(x, e) == IF e.id = NoRef THEN x ELSE AddEntry(x, e)

\* The entries LoadConfig reaches: those the header announces and the blob holds.
Readable(b) == SubSeq(b.entries, 1, IF b.count <= Len(b.entries) THEN b.count ELSE Len(b.entries))

LoadedBy(b) == FoldLeft(LoadEntry, EmptyExec, Readable(b))
-----------------------------------------------------------------------------
(* The evaluation of the channels and links.                               *)

\* PMU_Channel_GetValue: the registry knows the digital inputs only.
Registry(id) == IF id \in Inputs THEN din'[id] ELSE 0

\* GetSourceValue: an executor channel first, then the registry.
SourceValue(channels, id) ==
    IF Positions(channels, id) # {} THEN channels[FirstOf(Positions(channels, id))].value
    ELSE Registry(id)

LogicStep(c) ==
    CASE c.source # NoRef /\ c.rule = "IS_TRUE"  -> [c EXCEPT !.value = IF Registry(c.source) # 0 THEN 1 ELSE 0]
      [] c.source # NoRef /\ c.rule = "IS_FALSE" -> [c EXCEPT !.value = IF Registry(c.source) = 0 THEN 1 ELSE 0]
      [] OTHER -> c

\* Mutant: every rising edge restarts the timer.
Restarted(c, trigger) ==
    IF trigger /\ ~c.last
    THEN [c EXCEPT !.running = TRUE, !.start = clock', !.elapsed = 0, !.last = trigger]
    ELSE [c EXCEPT !.last = trigger]

\* A rising edge starts an idle timer.
Started(c, trigger) ==
    IF trigger /\ ~c.last /\ ~c.running
    THEN [c EXCEPT !.running = TRUE, !.start = clock', !.elapsed = 0, !.last = trigger]
    ELSE [c EXCEPT !.last = trigger]

\* Mutant: the comparison that ends the delay misses its last tick.
CountedPast(c) ==
    LET elapsed == (clock' - c.start) % ClockMod
    IN  IF ~c.running THEN c
        ELSE IF elapsed > c.delay THEN [c EXCEPT !.running = FALSE, !.elapsed = c.delay]
        ELSE [c EXCEPT !.elapsed = elapsed]

Counted(c) ==
    LET elapsed == (clock' - c.start) % ClockMod
    IN  IF ~c.running THEN c
        ELSE IF elapsed >= c.delay THEN [c EXCEPT !.running = FALSE, !.elapsed = c.delay]
        ELSE [c EXCEPT !.elapsed = elapsed]

TimerValue(c) ==
    CASE c.rule = "COUNT_UP" -> c.elapsed
      [] c.rule = "COUNT_DOWN" -> IF c.running THEN c.delay - c.elapsed ELSE 0
      [] OTHER -> IF c.running THEN 1 ELSE 0

TimerStep(channels, c) ==
    LET trigger == c.source # NoRef /\ SourceValue(channels, c.source) # 0
        counted == Counted(Started(c, trigger))
    IN  [counted EXCEPT !.value = TimerValue(counted)]

Evaluated(channels, i) ==
    LET c == channels[i]
    IN  [channels EXCEPT ![i] =
            CASE c.enabled /\ c.type = "LOGIC" -> LogicStep(c)
              [] c.enabled /\ c.type = "TIMER" -> TimerStep(channels, c)
              [] OTHER -> c]

EvaluatedAll(channels) == FoldLeft(Evaluated, channels, [i \in 1 .. Len(channels) |-> i])

\* PMU_PROFET_SetState of the Nucleo build.
Switched(o, hw, on) ==
    [reported |-> IF hw \in Hardware THEN [o.reported EXCEPT ![hw] = on] ELSE o.reported,
     pins |-> IF hw \in Pins THEN [o.pins EXCEPT ![hw] = on] ELSE o.pins]

Linked(channels) ==
    FoldLeft(LAMBDA o, l : Switched(o, l.hw, SourceValue(channels, l.source) # 0),
             outputs, exec.links)
-----------------------------------------------------------------------------
ExecInit ==
    /\ exec = EmptyExec
    /\ outputs = AllOff
    /\ din = [i \in Inputs |-> 0]
    /\ clock = 0

\* The 1 kHz part of the main loop: soft tick, DigitalInputs_Read, Update.
Tick ==
    /\ clock' = (clock + 1) % ClockMod
    /\ din' \in [Inputs -> {0, 1}]
    /\ exec' = [exec EXCEPT !.channels = EvaluatedAll(exec.channels)]
    /\ outputs' = Linked(exec'.channels)

\* Mutant: the tables are not cleared before a configuration is loaded.
LoadOnTop(b) ==
    /\ exec' = FoldLeft(LoadEntry, exec, Readable(b))
    /\ outputs' = [outputs EXCEPT !.pins = AllOff.pins]
    /\ UNCHANGED <<din, clock>>

\* PMU_ChannelExec_LoadConfig, with Clear and NucleoOutput_Reset.
LoadConfig(b) ==
    /\ exec' = LoadedBy(b)
    /\ outputs' = [outputs EXCEPT !.pins = AllOff.pins]
    /\ UNCHANGED <<din, clock>>

\* PMU_ChannelExec_Clear.
Clear ==
    /\ exec' = EmptyExec
    /\ UNCHANGED <<outputs, din, clock>>

\* Mutant: the new channel is added before the old one is removed.
SetChannelLate(e) ==
    /\ e.id # NoRef
    /\ exec' = RemoveChannel(AddEntry(exec, e), e.id)
    /\ UNCHANGED <<outputs, din, clock>>

\* Protocol_HandleSetChannelConfig: remove the channel, then add it again.
SetChannel(e) ==
    /\ e.id # NoRef
    /\ exec' = AddEntry(RemoveChannel(exec, e.id), e)
    /\ UNCHANGED <<outputs, din, clock>>

\* PMU_ChannelExec_SetEnabled.
SetEnabled(id, enabled) ==
    /\ Positions(exec.channels, id) # {}
    /\ exec' = [exec EXCEPT !.channels[FirstOf(Positions(exec.channels, id))].enabled = enabled]
    /\ UNCHANGED <<outputs, din, clock>>

\* PMU_ChannelExec_ResetChannel: the remembered trigger level is kept.
ResetChannel(id) ==
    /\ Positions(exec.channels, id) # {}
    /\ LET i == FirstOf(Positions(exec.channels, id))
           c == exec.channels[i]
       IN  exec' = [exec EXCEPT !.channels[i] =
                        IF c.type = "TIMER"
                        THEN [c EXCEPT !.running = FALSE, !.start = 0, !.elapsed = 0, !.value = 0]
                        ELSE [c EXCEPT !.value = 0]]
    /\ UNCHANGED <<outputs, din, clock>>

Entries == UNION {Range(b.entries) : b \in Blobs}

Load == \E b \in Blobs : LoadConfig(b)
Replace == \E e \in Entries : SetChannel(e)
Enable == \E id \in Ids, on \in BOOLEAN : SetEnabled(id, on)
Reset == \E id \in Ids : ResetChannel(id)

ExecNext == Tick \/ Load \/ Clear \/ Replace \/ Enable \/ Reset

\* Every operation of the executor's interface, in any order.
ExecSpec == ExecInit /\ [][ExecNext]_execVars
-----------------------------------------------------------------------------
Channel == [id : Ids, type : VirtualTypes, rule : Rules, source : Ids \cup Inputs \cup {NoRef},
            delay : 0 .. MaxDelay, enabled : BOOLEAN, value : 0 .. MaxDelay,
            addr : 0 .. StorageSize, running : BOOLEAN, start : 0 .. ClockMod - 1,
            elapsed : 0 .. MaxDelay, last : BOOLEAN]

\* Types and table bounds: the counters of a timer and the value it shows stay
\* within its delay, also when it was disabled while it ran.
ExecTypeOK ==
    /\ exec.channels \in Seq(Channel) /\ Len(exec.channels) <= MaxChannels
    /\ Len(exec.links) <= MaxLinks
    /\ outputs.reported \in [Hardware -> BOOLEAN] /\ outputs.pins \in [Pins -> BOOLEAN]
    /\ din \in [Inputs -> {0, 1}] /\ clock \in 0 .. ClockMod - 1

\* The channels' configurations lie in the storage and never on top of each
\* other, however channels are added, removed and replaced (AllocConfig).
StorageSound ==
    LET extent(i) == exec.channels[i].addr .. exec.channels[i].addr + SizeOf[exec.channels[i].type] - 1
    IN  /\ exec.used <= StorageSize
        /\ \A i \in DOMAIN exec.channels : extent(i) \subseteq 0 .. exec.used - 1
        /\ \A i, j \in DOMAIN exec.channels : i # j => extent(i) \cap extent(j) = {}

\* Tables, counters and storage stay sound under every operation.
TablesSound == ExecTypeOK /\ StorageSound

\* A tick leaves no enabled timer running at or past its delay, whatever clock
\* wrap, reload, reset or disabling came before (PMU_ChannelExec_Update).
TimersInTime ==
    [][clock' # clock =>
        \A i \in DOMAIN exec'.channels :
            LET c == exec'.channels[i]
            IN  c.enabled /\ c.running => (clock' - c.start) % ClockMod < c.delay]_execVars

Others(channels, id) ==
    FoldLeft(LAMBDA kept, c : IF c.id = id THEN kept ELSE Append(kept, c), <<>>, channels)

\* Replacing one channel leaves all channels with other ids as they were: the
\* shift of the table loses and duplicates none (PMU_ChannelExec_RemoveChannel).
OthersUntouched ==
    [][\A e \in Entries : SetChannel(e) =>
        Others(exec'.channels, e.id) = Others(exec.channels, e.id)]_execVars

\* The comment on the single-channel update calls it atomic.  It removes before
\* it adds, so it may lose the channel it replaces: only when the storage that
\* earlier updates never gave back is used up, never for want of a table slot.
LostOnlyWhenFull ==
    [][\A e \in Entries :
        /\ SetChannel(e) /\ e.type \in VirtualTypes
        /\ Positions(exec.channels, e.id) # {}
        /\ Positions(exec'.channels, e.id) = {}
        => exec.used > StorageSize - SizeOf[e.type]]_execVars
=============================================================================
