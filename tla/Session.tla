------------------------------- MODULE Session -------------------------------
(***************************************************************************)
(* A session of the configurator over a serial port: the user interface    *)
(* thread, which edits the document and uploads it (ui/mixins), the        *)
(* threads that read the configuration back, the device controller both    *)
(* use (controllers/device_controller.py), and the node, whose             *)
(* configuration is what ChannelCodec says of the document uploaded.       *)
(*                                                                         *)
(* The controller has no lock: uploads and reads close the transport, open *)
(* the port for themselves and reopen the transport, each step of which    *)
(* may come between two steps of another thread.  The port is exclusive,   *)
(* as COM ports are.                                                       *)
(***************************************************************************)
EXTENDS SampleDocuments

CONSTANTS
    UI,           \* the thread of the user interface
    Workers,      \* threads that read the configuration, one after the other
    Transports,   \* the transport objects that connections make, a sequence
    None,
    MaxActs       \* changes, comparisons and power cycles

ASSUME SessionAssumption ==
    /\ UI \notin Workers /\ None \notin Workers \cup {UI}
    /\ Transports \in Seq(ToSet(Transports)) /\ None \notin ToSet(Transports)
    /\ MaxActs \in 0 .. 2

Threads == {UI} \cup Workers

VARIABLES
    doc,        \* project_tree: the document on the screen
    dev, flash, \* the node: configuration in use, configuration saved
    port,       \* who holds the port: nobody, a thread or a transport
    current,    \* _transport
    linked,     \* _is_connected
    ops,        \* what each thread is doing
    syncs,      \* uploads the handler of the user's change still has to make
    results,    \* signals of finished reads, queued for the user interface
    dialogs,    \* progress dialogs on the screen, named after their readers
    progress,   \* _progress: the dialog the next result closes
    alarms,     \* automatic reads that are waiting for their timer
    last,       \* how doc and dev were last made equal
    raced,      \* ghost: two operations, or an operation and the link or a result, met
    made, acts  \* connections made; changes, comparisons and power cycles
vars == <<doc, dev, flash, port, current, linked, ops, syncs, results, dialogs, progress,
          alarms, last, raced, made, acts>>
node == <<dev, flash>>
link == <<port, current, linked, made>>
screen == <<dialogs, progress, alarms>>

Resting == [pc |-> "idle", kind |-> "none", doc |-> {}, ok |-> FALSE, obj |-> None]
Idle(t) == ops[t] = Resting
Exchange == {"release", "open", "clear", "load", "get", "close", "reach", "reopen"}
Busy(t) == \E u \in Threads \ {t} : ops[u].pc \in Exchange
Quiet == (\A t \in Threads : Idle(t)) /\ results = <<>>

At(t, pc) == ops[t].pc = pc
Goto(t, pc) == ops' = [ops EXCEPT ![t].pc = pc]
\* The user interface handles events: when idle, inside processEvents and
\* while a modal dialog is open.
HandlesEvents == ops[UI].pc \in {"idle", "pump", "shown", "decide"}
\* A shown progress dialog keeps the user from the main window.
UserMay == Idle(UI) /\ dialogs = {}

Init ==
    /\ doc = {}
    /\ \E d \in SavedDocs : dev = ImageOf[d] /\ flash = dev
    /\ port = None /\ current = None /\ linked = FALSE
    /\ ops = [t \in Threads |-> Resting]
    /\ syncs = 0 /\ results = <<>> /\ dialogs = {} /\ progress = None /\ alarms = 0
    /\ last = "none" /\ raced = FALSE
    /\ made = 0 /\ acts = 0
-----------------------------------------------------------------------------
\* _do_connect: the new transport is visible before its port is open.
Connect ==
    /\ UserMay /\ current = None /\ made < Len(Transports)
    /\ made' = made + 1
    /\ current' = Transports[made + 1]
    /\ Goto(UI, "connect")
    /\ raced' = (raced \/ Busy(UI))
    /\ UNCHANGED <<doc, node, port, linked, syncs, results, screen, last, acts>>

ConnectEnd ==
    /\ At(UI, "connect")
    /\ IF port = None
       THEN port' = current /\ linked' = TRUE /\ alarms' = alarms + 1 /\ UNCHANGED current
       ELSE /\ port' = IF port = current THEN None ELSE port
            /\ current' = None
            /\ UNCHANGED <<linked, alarms>>
    /\ ops' = [ops EXCEPT ![UI] = Resting]
    /\ raced' = (raced \/ Busy(UI))
    /\ UNCHANGED <<doc, node, made, syncs, results, dialogs, progress, last, acts>>

\* The transport is closed before the flag falls; the worker that reads
\* _transport in between aborts or reopens it.
Disconnect ==
    /\ UserMay /\ current # None
    /\ port' = IF port = current THEN None ELSE port
    /\ current' = None
    /\ linked' = FALSE
    /\ raced' = (raced \/ Busy(UI))
    /\ UNCHANGED <<doc, node, made, ops, syncs, results, screen, last, acts>>

\* A change of the tree and the uploads its handlers make: none for a new
\* document, one for an addition, a deletion or a file, two for an edit.
Change(d, uploads) ==
    /\ UserMay /\ acts < MaxActs
    /\ acts' = acts + 1
    /\ doc' = d
    /\ last' = "none"
    /\ syncs' = uploads
    /\ ops' = IF uploads = 0 THEN ops ELSE [ops EXCEPT ![UI].pc = "begin", ![UI].kind = "sync"]
    /\ UNCHANGED <<node, link, results, screen, raced>>
-----------------------------------------------------------------------------
\* Threads are alike: a new one takes the first name that is not in use.
Spare == {w \in Workers : Idle(w)} \ dialogs

\* read_from_device
StartRead(w) ==
    /\ ops' = [ops EXCEPT ![w].pc = "begin", ![w].kind = "read"]
    /\ dialogs' = dialogs \cup {w}
    /\ progress' = w
    /\ raced' = (raced \/ Busy(w) \/ results # <<>> \/ \E v \in Workers : ~Idle(v))

\* _auto_sync_config, three seconds after each connection.
AutoSync ==
    /\ HandlesEvents /\ alarms > 0
    /\ alarms' = alarms - 1
    /\ IF linked
       THEN Spare # {} /\ StartRead(CHOOSE w \in Spare : TRUE)
       ELSE UNCHANGED <<ops, dialogs, progress, raced>>
    /\ UNCHANGED <<doc, node, link, syncs, results, last, acts>>

\* The document becomes what was read.
Show(d) == doc' = d /\ last' = "read"
ClosedDialogs == dialogs \ {progress}

\* _load_config_from_device and _show_read_error
HandleResult ==
    /\ HandlesEvents /\ results # <<>>
    /\ results' = Tail(results)
    /\ dialogs' = ClosedDialogs /\ progress' = None
    /\ IF Head(results).ok THEN Show(Head(results).doc) ELSE UNCHANGED <<doc, last>>
    /\ raced' = (raced \/ At(UI, "shown"))
    /\ UNCHANGED <<node, link, ops, syncs, alarms, acts>>

\* The user closes a progress dialog by its frame.
Dismiss(w) ==
    /\ HandlesEvents /\ w \in dialogs
    /\ dialogs' = dialogs \ {w}
    /\ UNCHANGED <<doc, node, link, ops, syncs, results, progress, alarms, last, raced, acts>>

\* compare_configurations: the user interface waits for a thread of its own.
Compare ==
    /\ UserMay /\ linked /\ Spare # {} /\ acts < MaxActs
    /\ acts' = acts + 1
    /\ LET w == CHOOSE v \in Spare : TRUE
       IN  ops' = [ops EXCEPT ![w].pc = "begin", ![w].kind = "compare",
                              ![UI].pc = "join", ![UI].obj = w]
    /\ raced' = (raced \/ Busy(UI) \/ results # <<>>)
    /\ UNCHANGED <<doc, node, link, syncs, results, screen, last>>

Joined ==
    LET w == ops[UI].obj
    IN  /\ At(UI, "join") /\ At(w, "done")
        /\ ops' = [ops EXCEPT
                     ![w] = Resting,
                     ![UI] = IF ops[w].ok
                             THEN [Resting EXCEPT !.pc = "decide", !.doc = ops[w].doc]
                             ELSE Resting]
        /\ UNCHANGED <<doc, node, link, syncs, results, screen, last, raced, acts>>

\* join(timeout=15): the thread goes on, nobody takes its result.
JoinTimeout ==
    /\ At(UI, "join") /\ ~At(ops[UI].obj, "done")
    /\ ops' = [ops EXCEPT ![UI] = Resting, ![ops[UI].obj].kind = "orphan"]
    /\ raced' = TRUE
    /\ UNCHANGED <<doc, node, link, syncs, results, screen, last, acts>>

\* The user closes the comparison, writes the document or takes the device's.
Decide ==
    /\ At(UI, "decide")
    /\ \/ /\ ops' = [ops EXCEPT ![UI] = Resting]
          /\ UNCHANGED <<doc, last, syncs, dialogs, progress>>
       \/ /\ ops' = [ops EXCEPT ![UI] = [Resting EXCEPT !.pc = "begin", !.kind = "write"]]
          /\ syncs' = 1
          /\ UNCHANGED <<doc, last, dialogs, progress>>
       \/ /\ ops' = [ops EXCEPT ![UI] = Resting]
          /\ Show(ops[UI].doc)
          /\ dialogs' = ClosedDialogs /\ progress' = None
          /\ UNCHANGED syncs
    /\ UNCHANGED <<node, link, results, alarms, raced, acts>>
-----------------------------------------------------------------------------
\* The next upload of the handler, or back to the event loop.
NextSync(t) == [Resting EXCEPT !.pc = "begin", !.kind = ops[t].kind]
Ended(t) == IF t = UI /\ syncs > 1 THEN NextSync(t) ELSE Resting
Counted(t) == syncs' = IF t = UI THEN syncs - 1 ELSE syncs

\* A read is over: its signal, or its result for the thread that joins it.
Reported(w) ==
    /\ ops' = [ops EXCEPT ![w] = IF ops[w].kind = "compare"
                                 THEN [Resting EXCEPT !.pc = "done", !.ok = ops[w].ok, !.doc = ops[w].doc]
                                 ELSE Resting]
    /\ results' = IF ops[w].kind = "read"
                  THEN Append(results, [ok |-> ops[w].ok, doc |-> ops[w].doc])
                  ELSE results

\* The end of an operation of thread t, after which the port is as it is.
Over(t) ==
    IF t = UI
    THEN ops' = [ops EXCEPT ![t] = Ended(t)] /\ Counted(t) /\ UNCHANGED results
    ELSE Reported(t) /\ UNCHANGED syncs

\* _send_config_to_device_silent, write_to_device: the dialog is drawn.
SyncBegin ==
    /\ At(UI, "begin")
    /\ IF linked
       THEN Goto(UI, "pump") /\ UNCHANGED <<syncs, results>>
       ELSE Over(UI)
    /\ UNCHANGED <<doc, node, link, screen, last, raced, acts>>

\* write_to_device takes the document, shows its size and handles events again.
Capture ==
    /\ At(UI, "pump") /\ ops[UI].kind = "write"
    /\ ops' = [ops EXCEPT ![UI].pc = "shown", ![UI].doc = doc]
    /\ UNCHANGED <<doc, node, link, syncs, results, screen, last, raced, acts>>

\* A sync takes the document after all events were handled.
Snapshot == IF At(UI, "shown") THEN ops[UI].doc ELSE doc
CanStart == linked /\ current # None
Sync ==
    /\ At(UI, "shown") \/ (At(UI, "pump") /\ ops[UI].kind # "write")
    /\ IF (ops[UI].kind = "sync" /\ ImageOf[doc].count = 0) \/ ~CanStart
       THEN Over(UI) /\ UNCHANGED raced
       ELSE /\ ops' = [ops EXCEPT ![UI].pc = "release", ![UI].doc = Snapshot]
            /\ raced' = (raced \/ Busy(UI) \/ results # <<>>)
            /\ UNCHANGED <<syncs, results>>
    /\ UNCHANGED <<doc, node, link, screen, last, acts>>

ReadBegin(w) ==
    /\ At(w, "begin")
    /\ IF CanStart THEN Goto(w, "release") /\ UNCHANGED <<syncs, results>> ELSE Over(w)
    /\ raced' = (raced \/ Busy(w))
    /\ UNCHANGED <<doc, node, link, screen, last, acts>>

\* An exception that nothing catches: an upload has failed, a read gives no
\* signal.
Abort(t) ==
    IF t = UI THEN Over(t)
    ELSE /\ ops' = [ops EXCEPT ![t] = IF ops[t].kind = "compare"
                                      THEN [Resting EXCEPT !.pc = "done"] ELSE Resting]
         /\ UNCHANGED <<syncs, results>>

\* The transport lets the port go.
Release(t) ==
    /\ At(t, "release")
    /\ IF current = None THEN Abort(t) /\ UNCHANGED port
       ELSE /\ port' = IF port = current THEN None ELSE port
            /\ Goto(t, "open")
            /\ UNCHANGED <<syncs, results>>
    /\ UNCHANGED <<doc, node, current, linked, made, screen, last, raced, acts>>

\* PMUSerialTransfer.connect
Open(t) ==
    /\ At(t, "open")
    /\ IF port = None
       THEN port' = t /\ Goto(t, IF t = UI THEN "clear" ELSE "get")
       ELSE Goto(t, "reach") /\ UNCHANGED port
    /\ UNCHANGED <<doc, node, current, linked, made, syncs, results, screen, last, raced, acts>>

\* clear_config erases the flash too; without its acknowledgement the upload
\* goes on.
ClearConfig ==
    /\ At(UI, "clear")
    /\ \/ dev' = Blank /\ flash' = Blank
       \/ UNCHANGED node
    /\ Goto(UI, "load")
    /\ UNCHANGED <<doc, link, syncs, results, screen, last, raced, acts>>

\* upload_config: the packet is lost, its acknowledgement is lost, or neither.
LoadConfig ==
    /\ At(UI, "load")
    /\ \/ UNCHANGED dev /\ last' = "none" /\ Goto(UI, "close")
       \/ \E acked \in BOOLEAN :
            /\ dev' = ImageOf[ops[UI].doc]
            /\ last' = IF acked THEN "uploaded" ELSE "none"
            /\ ops' = [ops EXCEPT ![UI].pc = "close", ![UI].ok = acked]
    /\ UNCHANGED <<doc, flash, link, syncs, results, screen, raced, acts>>

\* read_config: a whole configuration, or a cut one that does not parse, or
\* no answer.
GetConfig(w) ==
    /\ At(w, "get")
    /\ \/ /\ Whole(dev)
          /\ ops' = [ops EXCEPT ![w].pc = "close", ![w].ok = TRUE, ![w].doc = LoadedFrom[dev]]
       \/ Goto(w, "close")
    /\ UNCHANGED <<doc, node, link, syncs, results, screen, last, raced, acts>>

\* Mutant: the port is not given back.
ClosedNever(t) == port

\* PMUSerialTransfer.disconnect
Closed(t) == IF port = t THEN None ELSE port
Close(t) ==
    /\ At(t, "close")
    /\ port' = Closed(t)
    /\ Goto(t, "reach")
    /\ UNCHANGED <<doc, node, current, linked, made, syncs, results, screen, last, raced, acts>>

\* The transport to reopen is looked up again.
Reach(t) ==
    /\ At(t, "reach")
    /\ IF current = None THEN Abort(t)
       ELSE /\ ops' = [ops EXCEPT ![t].pc = "reopen", ![t].obj = current]
            /\ UNCHANGED <<syncs, results>>
    /\ UNCHANGED <<doc, node, link, screen, last, raced, acts>>

\* Mutant: a transport that could not be reopened counts as connected.
ReopenedAnyway(t) ==
    port' = (IF port \in {None, ops[t].obj} THEN ops[t].obj ELSE port) /\ UNCHANGED linked
\* MINSerialTransport.connect: a second open of its own port fails too, and
\* drops the first.
Reopened(t) ==
    IF port = None THEN port' = ops[t].obj /\ UNCHANGED linked
    ELSE port' = (IF port = ops[t].obj THEN None ELSE port) /\ linked' = FALSE
Reopen(t) ==
    /\ At(t, "reopen")
    /\ Reopened(t)
    /\ Over(t)
    /\ UNCHANGED <<doc, node, current, made, screen, last, raced, acts>>

\* The node starts again from its flash.
PowerCycle ==
    /\ acts < MaxActs
    /\ acts' = acts + 1
    /\ dev' = flash
    /\ last' = "none"
    /\ raced' = (raced \/ ~Quiet)
    /\ UNCHANGED <<doc, flash, link, ops, syncs, results, screen>>
-----------------------------------------------------------------------------
User ==
    \/ Connect \/ Disconnect \/ PowerCycle \/ Decide
    \/ \E change \in UserChanges : Change(change[1], change[2])
    \/ Compare \/ \E w \in Workers : Dismiss(w)

Step(t) ==
    \/ Release(t) \/ Open(t) \/ Close(t) \/ Reach(t) \/ Reopen(t)
    \/ t = UI /\ (SyncBegin \/ Capture \/ Sync \/ ClearConfig \/ LoadConfig \/ ConnectEnd \/ Joined)
    \/ t # UI /\ (ReadBegin(t) \/ GetConfig(t))

Next ==
    \/ User \/ AutoSync \/ HandleResult \/ JoinTimeout
    \/ \E t \in Threads : Step(t)

Spec == Init /\ [][Next]_vars
-----------------------------------------------------------------------------
\* Types: threads, transports and documents where they belong, and an image on
\* the node that some document of the session has.
SessionTypeOK ==
    /\ doc \in Documents
    /\ dev \in Images
    /\ port \in {None} \cup Threads \cup ToSet(Transports)
    /\ current \in {None} \cup ToSet(Transports) /\ linked \in BOOLEAN
    /\ \A t \in Threads : ops[t].doc \in Documents /\ ops[t].ok \in BOOLEAN
    /\ dialogs \subseteq Workers /\ progress \in {None} \cup Workers
    /\ syncs \in 0 .. 2 /\ alarms \in 0 .. Len(Transports)
    /\ last \in {"none", "uploaded", "read"}

\* Whatever overlapped: when nothing runs and the controller says it is
\* connected, its own transport holds the port.
LinkedIsOpen == Quiet /\ linked => current # None /\ port = current

\* Without overlaps the link is as the state machine of the connection has
\* it: no operation loses it, and none leaves the port to somebody else.
LinkKept == Quiet /\ ~raced => port = current /\ (linked <=> current # None)

\* Without overlaps an acknowledged upload left the image of the document on
\* the node, a successful read the document of the node's image on the screen.
InStep ==
    Quiet /\ ~raced =>
        /\ last = "uploaded" => dev = ImageOf[doc]
        /\ last = "read" => Whole(dev) /\ doc = LoadedFrom[dev]

\* What an acknowledged upload put on the node reads back as the user left it,
\* as far as it makes the round trip: the exact values of the channels that
\* could be packed.
SettingsSurvive ==
    Quiet /\ ~raced /\ last = "uploaded" /\ Whole(dev) =>
        \A c \in doc : Sendable(c) /\ ~Raises(c) /\ c.kind \in DOMAIN Kept =>
                            HasKept(LoadedFrom[dev], c)

\* Without overlaps no progress dialog outlives its read.
DialogsClosed == Quiet /\ ~raced => dialogs = {}

\* What an operation borrows it gives back: port, link and dialog, whatever
\* step of it failed.
BorrowedIsReturned == SessionTypeOK /\ LinkKept /\ DialogsClosed

\* What was uploaded is what the node holds, what was read is what the screen
\* shows, and the settings of a channel survive the way there and back.
NothingLostOnTheWay == InStep /\ SettingsSurvive

\* "Extract ALL fields for correct roundtrip" (device_controller.py:1266): what
\* of an output was packed reads back as it was uploaded.
OutputsSurvive ==
    Quiet /\ ~raced /\ last = "uploaded" /\ Whole(dev) =>
        \A c \in doc : Sendable(c) /\ c.kind = "power_output" =>
            \E d \in LoadedFrom[dev] :
                /\ d.id = c.id /\ d.kind = c.kind
                /\ \A key \in DOMAIN c.settings \cap Returned(c.kind) :
                      d.settings[key] = c.settings[key]
=============================================================================
