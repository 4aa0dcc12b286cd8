----------------------------- MODULE UndoManager -----------------------------
(***************************************************************************)
(* The undo and redo stacks of the configurator (undo_manager.py) over the *)
(* channel list of the ConfigManager, whose add, update and remove are the *)
(* callbacks of the commands.  That wiring is assumed: the repository has   *)
(* no caller that makes a command, and ConfigManager.add_channel takes one *)
(* argument where the commands pass two (undo_manager.py:54).              *)
(*                                                                         *)
(* A channel is a record of a name and a value; the property of a          *)
(* PropertyChangeCommand is the field "setting".                           *)
(*                                                                         *)
(* Time is abstracted: "soon" says whether less than the merge window has  *)
(* passed since the command before.  past and future are history           *)
(* variables, the documents each command of the stacks was executed on or  *)
(* undone from.                                                            *)
(***************************************************************************)
EXTENDS Naturals, Sequences, SequencesExt

CONSTANTS Channels, MaxStackSize, MaxGroup

ASSUME UndoAssumption == MaxStackSize \in Nat \ {0} /\ MaxGroup \in Nat

VARIABLES doc, undoStack, redoStack,
          canUndo, canRedo,          \* what the last signals told the menus
          returned,                  \* what the last call answered
          past, future

vars == <<doc, undoStack, redoStack, canUndo, canRedo, returned, past, future>>

Names == {c.name : c \in Channels}
Values == {c.value : c \in Channels}
Kinds == {"add", "remove", "update", "set"}

Simple == [kind : Kinds, name : Names, old : Channels, new : Channels, done : BOOLEAN]
Group == [kind : {"group"}, parts : Seq(Simple), count : Nat]
Command == Simple \cup Group

-----------------------------------------------------------------------------
(* The channel list.                                                       *)

IndexOf(d, n) == SelectInSeq(d.channels, LAMBDA c : c.name = n)

Outcome(ok, d) == [ok |-> ok, doc |-> d]

AddChannel(d, c) ==
    IF IndexOf(d, c.name) # 0 THEN Outcome(FALSE, d)
    ELSE Outcome(TRUE, [d EXCEPT !.channels = Append(@, c)])

UpdateChannel(d, n, c) ==
    IF IndexOf(d, n) = 0 THEN Outcome(FALSE, d)
    ELSE Outcome(TRUE, [d EXCEPT !.channels[IndexOf(d, n)] = c])

RemoveChannel(d, n) ==
    IF IndexOf(d, n) = 0 THEN Outcome(FALSE, d)
    ELSE Outcome(TRUE, [d EXCEPT !.channels = RemoveAt(@, IndexOf(d, n))])

SetProperty(d, v) == Outcome(TRUE, [d EXCEPT !.setting = v])

-----------------------------------------------------------------------------
(* The commands.                                                           *)

Run(c, d) ==
    CASE c.kind = "add"    -> AddChannel(d, c.new)
      [] c.kind = "remove" -> RemoveChannel(d, c.old.name)
      [] c.kind = "update" -> UpdateChannel(d, c.name, c.new)
      [] c.kind = "set"    -> SetProperty(d, c.new.value)

TakeBack(c, d) ==
    CASE c.kind = "add"    -> RemoveChannel(d, c.new.name)
      [] c.kind = "remove" -> AddChannel(d, c.old)
      [] c.kind = "update" -> UpdateChannel(d, c.name, c.old)
      [] c.kind = "set"    -> SetProperty(d, c.old.value)

\* Undoing a command that has not been executed does nothing and fails.
Undone(c, d) == IF c.done THEN TakeBack(c, d) ELSE Outcome(FALSE, d)

\* The first parts of a group taken back, the last of them first; the
\* undoing goes on behind a part that cannot be taken back.
TakeBackParts(parts, d) ==
    FoldLeft(LAMBDA r, c : LET s == TakeBack(c, r.doc) IN Outcome(r.ok /\ s.ok, s.doc),
             Outcome(TRUE, d), Reverse(parts))

\* The parts run one after the other up to the first that fails.
RunParts(parts, d) ==
    FoldLeft(LAMBDA r, c : IF ~r.ok THEN r
                           ELSE LET s == Run(c, r.doc)
                                IN [ok |-> s.ok, doc |-> s.doc, ran |-> r.ran + (IF s.ok THEN 1 ELSE 0)],
             [ok |-> TRUE, doc |-> d, ran |-> 0], parts)

\* Mutant: a failed group leaves what it had done.
NoRollBack(parts, d) == d

RollBack(parts, d) == TakeBackParts(parts, d).doc

Execute(c, d) ==
    IF c.kind # "group" THEN Run(c, d)
    ELSE LET r == RunParts(c.parts, d)
         IN IF r.ok THEN Outcome(TRUE, r.doc)
            ELSE Outcome(FALSE, RollBack(SubSeq(c.parts, 1, r.ran), r.doc))

Unexecute(c, d) ==
    IF c.kind # "group" THEN Undone(c, d) ELSE TakeBackParts(SubSeq(c.parts, 1, c.count), d)

\* Mutant: a command does not remember having been executed.
MarkedNever(c, ok) == c

\* What a command remembers of having been executed.
Marked(c, ok) ==
    IF c.kind # "group" THEN [c EXCEPT !.done = ok]
    ELSE [c EXCEPT !.count = IF ok THEN Len(c.parts) ELSE 0]

CanMerge(c, d) == c.kind = "update" /\ d.kind = "update" /\ c.name = d.name

\* The merged command is a new one, which has not been executed.
Merge(c, d) == [c EXCEPT !.new = d.new, !.done = FALSE]

-----------------------------------------------------------------------------
(* The manager.                                                            *)

Contents(d) == [channels |-> ToSet(d.channels), setting |-> d.setting]

\* Commands are built from the document they are executed on.
Built(c, d) ==
    /\ ~c.done
    /\ c.kind = "add"    => c.old = c.new /\ c.name = c.new.name
    /\ c.kind = "remove" => c.old \in ToSet(d.channels) /\ c.new = c.old /\ c.name = c.old.name
    /\ c.kind = "update" => /\ c.old \in ToSet(d.channels) /\ c.name = c.old.name
                            /\ c.new.name = c.name \/ IndexOf(d, c.new.name) = 0
    /\ c.kind = "set"    => c.old.value = d.setting /\ c.new # c.old
                            /\ c.old.name = c.name /\ c.new.name = c.name

Renames(c) == c.kind = "update" /\ c.new.name # c.name

Singles == {c \in Simple : Built(c, doc)}

Groups == LET parts == {c \in Singles : ~Renames(c) /\ c.kind # "set"}
          IN {[kind |-> "group", parts |-> p, count |-> 0] :
                 p \in UNION {[1..n -> parts] : n \in 2..MaxGroup}}

Init ==
    /\ doc \in [channels : {<<>>}, setting : Values]
    /\ undoStack = <<>> /\ redoStack = <<>>
    /\ canUndo = FALSE /\ canRedo = FALSE
    /\ returned = [call |-> "clear", ok |-> TRUE]
    /\ past = <<>> /\ future = <<>>

\* The newest commands the stack may hold.
Limited(s) == IF Len(s) > MaxStackSize THEN SubSeq(s, Len(s) - MaxStackSize + 1, Len(s)) ELSE s

Answer(call, ok) == returned' = [call |-> call, ok |-> ok]

\* Mutant: the redo menu is not told.
DropRedoSilently == redoStack' = <<>> /\ future' = <<>> /\ canRedo' = canRedo

\* A new command ends what could be redone.
DropRedo == redoStack' = <<>> /\ future' = <<>> /\ canRedo' = (redoStack = <<>> /\ canRedo)

\* A command that fails is forgotten, whatever it did to the document.
Refused(c) ==
    LET r == Execute(c, doc)
    IN /\ ~r.ok
       /\ doc' = r.doc
       /\ Answer("execute", FALSE)
       /\ UNCHANGED <<undoStack, redoStack, canUndo, canRedo, past, future>>

Merges(c, soon) == soon /\ undoStack # <<>> /\ CanMerge(Last(undoStack), c)

\* An update soon after one of the same channel joins it.
Joins(c) ==
    /\ Execute(c, doc).ok /\ Merges(c, TRUE)
    /\ doc' = Execute(c, doc).doc
    /\ undoStack' = Append(Front(undoStack), Merge(Last(undoStack), c))
    /\ DropRedo /\ Answer("execute", TRUE)
    /\ UNCHANGED <<canUndo, past>>

Pushes(c, soon) ==
    LET r == Execute(c, doc)
    IN /\ r.ok /\ ~Merges(c, soon)
       /\ doc' = r.doc
       /\ undoStack' = Limited(Append(undoStack, Marked(c, TRUE)))
       /\ past' = Limited(Append(past, Contents(doc)))
       /\ canUndo' = (Len(undoStack') = 1 \/ canUndo)
       /\ DropRedo /\ Answer("execute", TRUE)

Perform ==
    LET singles == Singles
    IN \/ \E c \in singles \cup Groups : Refused(c) \/ Pushes(c, FALSE)
       \/ \E c \in singles : Joins(c) \/ Pushes(c, TRUE)

\* A command that cannot be undone goes back on its stack.
Undo ==
    LET c == Last(undoStack)  r == Unexecute(c, doc)
    IN /\ undoStack # <<>>
       /\ doc' = r.doc
       /\ Answer("undo", r.ok)
       /\ IF r.ok
          THEN /\ undoStack' = Front(undoStack) /\ redoStack' = Append(redoStack, c)
               /\ past' = Front(past) /\ future' = Append(future, Contents(doc))
               /\ canUndo' = (undoStack' # <<>> /\ canUndo)
               /\ canRedo' = (Len(redoStack') = 1 \/ canRedo)
          ELSE UNCHANGED <<undoStack, redoStack, past, future, canUndo, canRedo>>

Redo ==
    LET c == Last(redoStack)  r == Execute(c, doc)
    IN /\ redoStack # <<>>
       /\ doc' = r.doc
       /\ Answer("redo", r.ok)
       /\ IF r.ok
          THEN /\ redoStack' = Front(redoStack) /\ undoStack' = Append(undoStack, Marked(c, TRUE))
               /\ future' = Front(future) /\ past' = Append(past, Contents(doc))
               /\ canRedo' = (redoStack' # <<>> /\ canRedo)
               /\ canUndo' = (Len(undoStack') = 1 \/ canUndo)
          ELSE /\ redoStack' = Append(Front(redoStack), Marked(c, FALSE))
               /\ UNCHANGED <<undoStack, past, future, canUndo, canRedo>>

\* A new or a loaded document; its history starts anew.
Clear ==
    /\ doc' \in [channels : {<<>>} \cup {<<c>> : c \in Channels}, setting : {doc.setting}]
    /\ undoStack' = <<>> /\ redoStack' = <<>>
    /\ canUndo' = (undoStack = <<>> /\ canUndo)
    /\ canRedo' = (redoStack = <<>> /\ canRedo)
    /\ past' = <<>> /\ future' = <<>>
    /\ Answer("clear", TRUE)

Next == Perform \/ Undo \/ Redo \/ Clear

Spec == Init /\ [][Next]_vars

-----------------------------------------------------------------------------
(* Properties.                                                             *)

\* The stacks hold commands.
UndoTypeOK ==
    /\ undoStack \in Seq(Command) /\ redoStack \in Seq(Command)
    /\ canUndo \in BOOLEAN /\ canRedo \in BOOLEAN

\* Only execute enforces the limit, yet redo cannot push the undo stack over
\* it: what waits to be redone was taken from the same stack, and a new
\* command drops it.
HistoryBounded == Len(undoStack) + Len(redoStack) <= MaxStackSize

\* The menu entries are enabled by signals sent on some changes only (the
\* first command pushed, the last one popped), and always agree with the
\* stacks all the same.
MenusAgree == /\ canUndo <=> undoStack # <<>>
              /\ canRedo <=> redoStack # <<>>

\* The stacks hold commands, within the limit, and the menus follow them.
StacksSound == UndoTypeOK /\ HistoryBounded /\ MenusAgree

\* Every answer of the manager is a step along one line of documents: undo
\* returns to the channels before the command, redo to the ones before the
\* undo, and a command or group that fails, however far it got, changes
\* nothing.
History == INSTANCE EditHistory WITH present <- Contents(doc)
HistoryIsLinear == History!HistorySpec

\* Undo gets stuck only on a merged update, which never counts as executed,
\* or on a rename, whose channel is no longer found by the old name; redo
\* never does.
Sticking == \/ returned.call = "undo" /\ ~returned.ok
            \/ returned.call = "redo" /\ ~returned.ok
OnlyMergedStick ==
    Sticking => /\ returned.call = "undo"
                /\ Last(undoStack).kind = "update"
                /\ ~Last(undoStack).done \/ Renames(Last(undoStack))
=============================================================================
