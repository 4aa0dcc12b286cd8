----------------------------- MODULE NodeConfig -----------------------------
(***************************************************************************)
(* The life of a configuration on the Nucleo node: received over the       *)
(* serial link, run by the executor, saved to flash and restored at boot.  *)
(* Command handlers of firmware/src/pmu_serial_transfer_port.c, the main   *)
(* loop and boot of main_nucleo_f446.c, with the executor of ChannelExec.  *)
(*                                                                         *)
(* The flash sector is a header (magic word; size and checksum, which      *)
(* stand for the configuration they were computed from) and data words.    *)
(* SAVE_CONFIG and CLEAR_CONFIG block the main loop, so their erase and    *)
(* program steps interleave with nothing but a power failure, which may    *)
(* come between any two of them and in the middle of an erasure.           *)
(***************************************************************************)
EXTENDS ChannelExec

CONSTANTS
    Nothing,       \* config_len = 0; an erased word
    Stubs,         \* payloads of less than two bytes: stored but not loaded
    WordsOf        \* number of flash words of each configuration

Configs == Blobs \cup Stubs

ASSUME NodeAssumption ==
    /\ Nothing \notin Configs /\ Blobs \cap Stubs = {}
    /\ WordsOf \in [Configs -> Nat \ {0}]

VARIABLES
    buffer,    \* config_buffer and config_len
    flash,     \* the configuration sector
    io,        \* the flash operation under way
    commanded  \* history: pins switched on by SET_OUTPUT since boot or reload

nodeVars == <<exec, outputs, din, clock, buffer, flash, io, commanded>>
-----------------------------------------------------------------------------
\* A data word of a configuration: the checksum tells it from any other.
Word(b, i) == <<b, i>>
Image(b) == [i \in 1 .. WordsOf[b] |-> Word(b, i)]
Erased == [magic |-> FALSE, header |-> Nothing, words |-> <<>>]
Ready == [phase |-> "ready", next |-> 0]

\* Mutant: the start takes what the header announces without the checksum.
UncheckedContent(f) ==
    IF f.magic /\ f.header # Nothing THEN f.header ELSE Nothing

\* Config_LoadFromFlash: the configuration a start would restore.
Content(f) ==
    IF f.magic /\ f.header # Nothing
       /\ f.words = Image(f.header)
    THEN f.header ELSE Nothing

\* A command runs only between two passes of the main loop.
Idle == io = Ready
-----------------------------------------------------------------------------
NodeInit ==
    /\ ExecInit
    /\ buffer = Nothing
    /\ flash = Erased
    /\ io = Ready
    /\ commanded = {}

MainTick == Idle /\ Tick /\ UNCHANGED <<buffer, flash, io, commanded>>

\* handle_load_binary: the buffer is taken over whether or not it can be loaded.
LoadBinary(b) ==
    /\ Idle
    /\ buffer' = b
    /\ \/ b \in Blobs /\ LoadConfig(b) /\ commanded' = {}
       \/ b \in Stubs /\ UNCHANGED <<exec, outputs, din, clock, commanded>>
    /\ UNCHANGED <<flash, io>>

\* A load without data: config_len becomes 0 and LoadConfig refuses.
LoadNoData ==
    /\ Idle
    /\ buffer' = Nothing
    /\ UNCHANGED <<exec, outputs, din, clock, flash, io, commanded>>

\* handle_set_output.
SetOutput(hw, on) ==
    /\ Idle
    /\ outputs' = Switched(outputs, hw, on)
    /\ commanded' = IF on THEN commanded \cup ({hw} \cap Pins) ELSE commanded \ {hw}
    /\ UNCHANGED <<exec, din, clock, buffer, flash, io>>

\* handle_save_config: refused (FLASH_ACK 0) when there is nothing to save.
SaveConfig ==
    /\ Idle /\ buffer # Nothing
    /\ io' = [phase |-> "erase_to_save", next |-> 0]
    /\ UNCHANGED <<exec, outputs, din, clock, buffer, flash, commanded>>

\* handle_clear_config up to the erasure: the outputs are not touched.
ClearConfig ==
    /\ Idle
    /\ Clear
    /\ buffer' = Nothing
    /\ io' = [phase |-> "erase_to_clear", next |-> 0]
    /\ UNCHANGED <<flash, commanded>>

Erasing == io.phase \in {"erase_to_save", "erase_to_clear"}

\* HAL_FLASHEx_Erase succeeds.
Erase ==
    /\ Erasing
    /\ flash' = Erased
    /\ io' = IF io.phase = "erase_to_save" THEN [phase |-> "program", next |-> 1] ELSE Ready
    /\ UNCHANGED <<exec, outputs, din, clock, buffer, commanded>>

\* What an erasure that does not complete leaves of the sector.
Damaged(f) == {f, [f EXCEPT !.words = <<>>], [f EXCEPT !.magic = FALSE]}

\* HAL_FLASHEx_Erase fails: a save gives up, a clear acknowledges all the same.
EraseFails ==
    /\ Erasing
    /\ flash' \in Damaged(flash)
    /\ io' = Ready
    /\ UNCHANGED <<exec, outputs, din, clock, buffer, commanded>>

\* The number of words Config_SaveToFlash programs: the header has two.
LastWord == WordsOf[buffer] + 2

Programmed(f, n) ==
    CASE n = 1 -> [f EXCEPT !.magic = TRUE]
      [] n = 2 -> [f EXCEPT !.header = buffer]
      [] OTHER -> [f EXCEPT !.words = Append(@, Word(buffer, n - 2))]

\* A word whose programming fails stays erased.
Skipped(f, n) ==
    IF n <= 2 THEN f ELSE [f EXCEPT !.words = Append(@, Nothing)]

\* Config_SaveToFlash programs a word; whether that worked is not looked at.
Program ==
    /\ io.phase = "program"
    /\ flash' \in {Programmed(flash, io.next), Skipped(flash, io.next)}
    /\ io' = IF io.next = LastWord THEN Ready ELSE [io EXCEPT !.next = @ + 1]
    /\ UNCHANGED <<exec, outputs, din, clock, buffer, commanded>>

\* Power-on or reset: RAM is lost, PMU_ST_LoadSavedConfig restores the saved
\* configuration.  RESET is handled between two passes, a power failure at any time.
Boot ==
    /\ flash' \in IF Erasing THEN Damaged(flash) ELSE {flash}
    /\ buffer' = Content(flash')
    /\ exec' = IF buffer' \in Blobs THEN LoadedBy(buffer') ELSE EmptyExec
    /\ outputs' = AllOff
    /\ din' = [i \in Inputs |-> 0]
    /\ clock' = 0
    /\ io' = Ready
    /\ commanded' = {}

LoadCommand == \E b \in Configs : LoadBinary(b)
OutputCommand == \E hw \in 0 .. NumOutputs, on \in BOOLEAN : SetOutput(hw, on)

NodeNext ==
    \/ MainTick \/ LoadCommand \/ LoadNoData \/ OutputCommand
    \/ SaveConfig \/ ClearConfig \/ Erase \/ EraseFails \/ Program \/ Boot

\* The main loop reaches its 1 kHz part again and again, whatever commands it
\* handles in between, and a flash operation is carried through.
NodeFairness == SF_nodeVars(MainTick) /\ WF_nodeVars(Erase \/ EraseFails) /\ WF_nodeVars(Program)

NodeSpec == NodeInit /\ [][NodeNext]_nodeVars /\ NodeFairness
-----------------------------------------------------------------------------
\* Types, and the order of a save: a data word is erased or belongs to the place
\* it is in.
NodeTypeOK ==
    /\ ExecTypeOK
    /\ buffer \in Configs \cup {Nothing}
    /\ flash.magic \in BOOLEAN /\ flash.header \in Configs \cup {Nothing}
    /\ \A n \in 1 .. Len(flash.words) : flash.words[n] \in {Word(b, n) : b \in Configs} \cup {Nothing}
    /\ io.phase \in {"ready", "erase_to_save", "erase_to_clear", "program"}
    /\ io.phase = "program" => buffer # Nothing /\ io.next \in 1 .. LastWord
    /\ commanded \subseteq Pins

\* The configuration that is completely in the sector.
Whole(f) ==
    IF \E b \in Configs : f = [magic |-> TRUE, header |-> b, words |-> Image(b)]
    THEN f.header ELSE Nothing

Saved == INSTANCE SavedConfig WITH
            loaded <- buffer, stored <- Whole(flash), writing <- io # Ready

\* Saving and booting implement the promise of SavedConfig: no power failure,
\* failed erasure or failed word makes a start restore a mixture, and only a
\* save or a clear gives up what is stored (Config_SaveToFlash, Config_LoadFromFlash).
ImplementsSaved == Saved!SavedSpec

\* The executor runs the configuration that is in the buffer, and would be
\* saved, whichever way it came there: load, reload, boot after any failure.
Described(x) ==
    [channels |-> [i \in DOMAIN x.channels |->
                      [id |-> x.channels[i].id, rule |-> x.channels[i].rule,
                       source |-> x.channels[i].source, delay |-> x.channels[i].delay]],
     links |-> x.links, used |-> x.used]

RunsWhatIsLoaded == buffer \in Blobs => Described(exec) = Described(LoadedBy(buffer))

\* A timer that runs ends (or is reloaded), whatever its trigger does: a rising
\* edge does not restart it (the timer step of PMU_ChannelExec_Update).
Running == {i \in DOMAIN exec.channels : exec.channels[i].running}
PulseEnds == \A i \in 1 .. MaxChannels : (i \in Running) ~> (i \notin Running)

\* CLEAR_CONFIG is documented as a factory reset: a pin that is on belongs to
\* a link or a command of the present configuration.
PinsExplained ==
    Idle => \A h \in Pins : outputs.pins[h] =>
        h \in commanded \/ \E i \in DOMAIN exec.links : exec.links[i].hw = h

\* After a load, a reload or a boot no pin is left on from what ran before
\* (NucleoOutput_Reset in PMU_ChannelExec_LoadConfig).
ReloadStartsDark == buffer \in Blobs => PinsExplained

\* Buffer, tables, pins and the order of a save agree after any mix of loads,
\* failed loads, saves, clears and resets.
NodeAgrees == NodeTypeOK /\ RunsWhatIsLoaded /\ ReloadStartsDark
=============================================================================
