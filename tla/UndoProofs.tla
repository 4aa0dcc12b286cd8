----------------------------- MODULE UndoProofs -----------------------------
(***************************************************************************)
(* The undo manager for any channels, any limit and groups of any size.    *)
(*                                                                         *)
(* The first part bounds the stacks: that a redo has room rests on the     *)
(* bound of the two stacks together, which the menus need too.             *)
(*                                                                         *)
(* The second part shows that the manager implements EditHistory.  Its     *)
(* invariant, HInv, is that the pictures in past and future are one line   *)
(* the commands follow: each command of the stacks was built on the        *)
(* picture before it and leads to the one behind it (Leads), a group       *)
(* along a path of pictures.  A command is its own way back unless it      *)
(* renames; a group is undone from pictures that keep Near to the ones     *)
(* it made, since a part remembers the channel as the group found it.      *)
(***************************************************************************)
EXTENDS UndoManager, Inductions, SequenceTheorems

\* A limited sequence is one, no longer than the limit or than before, and
\* not emptied unless nothing may be kept.
LEMMA LimitedProperties ==
    ASSUME NEW S, NEW s \in Seq(S)
    PROVE  /\ Limited(s) \in Seq(S)
           /\ Len(Limited(s)) <= MaxStackSize
           /\ Len(s) > MaxStackSize => Len(Limited(s)) = MaxStackSize
           /\ Len(s) <= MaxStackSize => Limited(s) = s
<1>1. MaxStackSize \in Nat /\ Len(s) \in Nat
  BY UndoAssumption
<1>2. CASE Len(s) > MaxStackSize
  <2>1. Limited(s) = SubSeq(s, Len(s) - MaxStackSize + 1, Len(s))
    BY <1>2 DEF Limited
  <2>2. Len(s) - MaxStackSize + 1 \in 1..(Len(s) + 1)
    BY <1>1, <1>2
  <2>3. SubSeq(s, Len(s) - MaxStackSize + 1, Len(s)) \in Seq(S)
    BY <1>1, <2>2
  <2>4. Len(SubSeq(s, Len(s) - MaxStackSize + 1, Len(s))) = MaxStackSize
    BY <1>1, <2>2
  <2> QED
    BY <1>1, <1>2, <2>1, <2>3, <2>4
<1>3. CASE ~(Len(s) > MaxStackSize)
  BY <1>1, <1>3 DEF Limited
<1> QED
  BY <1>2, <1>3

\* Taking the last element of a stack and putting it on another.
LEMMA PopProperties ==
    ASSUME NEW S, NEW s \in Seq(S), s # <<>>
    PROVE  /\ Front(s) \in Seq(S) /\ Last(s) \in S
           /\ Len(s) >= 1 /\ Len(Front(s)) = Len(s) - 1
<1>1. Len(s) \in Nat /\ Len(s) # 0
  OBVIOUS
<1>2. Last(s) \in S
  BY <1>1 DEF Last
<1>3. SubSeq(s, 1, Len(s) - 1) \in Seq(S) /\ Len(SubSeq(s, 1, Len(s) - 1)) = Len(s) - 1
  <2> DEFINE n == Len(s) - 1
  <2>1. n \in Int /\ n >= 0 /\ \A i \in 1..n : s[i] \in S
    BY <1>1
  <2> HIDE DEF n
  <2>2. SubSeq(s, 1, n) \in Seq(S) /\ Len(SubSeq(s, 1, n)) = IF 1 <= n THEN n - 1 + 1 ELSE 0
    BY <2>1, SubSeqProperties
  <2>3. Len(SubSeq(s, 1, n)) = n
    BY <2>1, <2>2
  <2> QED
    BY <2>2, <2>3 DEF n
<1> QED
  BY <1>1, <1>2, <1>3 DEF Front

\* A marked command is a command.
LEMMA MarkedIsCommand ==
    ASSUME NEW c \in Command, NEW ok \in BOOLEAN
    PROVE  Marked(c, ok) \in Command
<1>1. CASE c \in Simple
  BY <1>1 DEF Command, Simple, Marked, Kinds
<1>2. CASE c \in Group
  BY <1>2 DEF Command, Group, Marked
<1> QED
  BY <1>1, <1>2 DEF Command

\* The commands that are built are commands.
LEMMA BuiltAreCommands == Singles \subseteq Simple /\ Groups \subseteq Command
<1>1. Singles \subseteq Simple
  BY DEF Singles
<1>2. ASSUME NEW g \in Groups PROVE g \in Command
  <2> DEFINE P == {c \in Singles : ~Renames(c) /\ c.kind # "set"}
  <2>1. PICK n \in 2..MaxGroup : \E p \in [1..n -> P] : g = [kind |-> "group", parts |-> p, count |-> 0]
    BY DEF Groups
  <2>2. PICK p \in [1..n -> P] : g = [kind |-> "group", parts |-> p, count |-> 0]
    BY <2>1
  <2> n \in Nat /\ p \in [1..n -> Simple]
    BY <1>1, UndoAssumption
  <2>3. p \in Seq(Simple)
    BY SeqDef
  <2> QED
    BY <2>2, <2>3 DEF Command, Group
<1> QED
  BY <1>1, <1>2

UInv == UndoTypeOK /\ HistoryBounded /\ MenusAgree

LEMMA UndoInit == Init => UInv
<1> SUFFICES ASSUME Init PROVE UInv
  OBVIOUS
<1>1. undoStack = <<>> /\ redoStack = <<>> /\ canUndo = FALSE /\ canRedo = FALSE
  BY DEF Init
<1>2. UndoTypeOK
  BY <1>1, EmptySeq DEF UndoTypeOK
<1>3. HistoryBounded
  BY <1>1, UndoAssumption, EmptySeq DEF HistoryBounded
<1>4. MenusAgree
  BY <1>1 DEF MenusAgree
<1> QED
  BY <1>2, <1>3, <1>4 DEF UInv

\* A command that joins the last one leaves a stack as long as before.
LEMMA JoinKeeps ==
    ASSUME UInv, NEW c \in Singles, Joins(c) PROVE UInv'
<1>1. undoStack \in Seq(Command) /\ undoStack # <<>>
  BY DEF Joins, Merges, UInv, UndoTypeOK
<1>2. Front(undoStack) \in Seq(Command) /\ Last(undoStack) \in Command /\ Len(Front(undoStack)) = Len(undoStack) - 1
  BY <1>1, PopProperties
<1>3. Last(undoStack) \in Simple /\ c \in Simple
  <2>1. Last(undoStack).kind = "update"
    BY DEF Joins, Merges, CanMerge
  <2> QED
    BY <1>2, <2>1, BuiltAreCommands DEF Command, Group
<1>4. Merge(Last(undoStack), c) \in Command
  BY <1>3 DEF Merge, Simple, Command
<1>5. /\ undoStack' = Append(Front(undoStack), Merge(Last(undoStack), c))
      /\ redoStack' = <<>> /\ canRedo' = (redoStack = <<>> /\ canRedo) /\ canUndo' = canUndo
  BY DEF Joins, DropRedo
<1>6. undoStack' \in Seq(Command) /\ Len(undoStack') = Len(undoStack) /\ undoStack' # <<>>
  BY <1>1, <1>2, <1>4, <1>5
<1>7. Len(undoStack) <= MaxStackSize /\ Len(redoStack') = 0
  BY <1>1, <1>5, EmptySeq, UndoAssumption DEF UInv, UndoTypeOK, HistoryBounded
<1>8. UndoTypeOK'
  BY <1>5, <1>6, EmptySeq DEF UInv, UndoTypeOK
<1>9. HistoryBounded'
  BY <1>1, <1>6, <1>7 DEF HistoryBounded
<1>10. MenusAgree'
  BY <1>1, <1>5, <1>6 DEF UInv, UndoTypeOK, MenusAgree
<1> QED
  BY <1>8, <1>9, <1>10 DEF UInv

\* A command that is pushed may push out the oldest.
LEMMA PushKeeps ==
    ASSUME UInv, NEW c \in Command, NEW soon \in BOOLEAN, Pushes(c, soon) PROVE UInv'
<1>1. undoStack \in Seq(Command) /\ Len(undoStack) <= MaxStackSize /\ Len(undoStack) \in Nat
  BY UndoAssumption DEF UInv, UndoTypeOK, HistoryBounded
<1> DEFINE s == Append(undoStack, Marked(c, TRUE))
<1>2. s \in Seq(Command) /\ Len(s) = Len(undoStack) + 1
  <2>1. Marked(c, TRUE) \in Command
    BY MarkedIsCommand
  <2> QED
    BY <1>1, <2>1, AppendProperties
<1>3. /\ undoStack' = Limited(s) /\ canUndo' = (Len(undoStack') = 1 \/ canUndo)
      /\ redoStack' = <<>> /\ canRedo' = (redoStack = <<>> /\ canRedo)
  BY DEF Pushes, DropRedo
<1> HIDE DEF s
<1>4. /\ Limited(s) \in Seq(Command) /\ Len(Limited(s)) <= MaxStackSize
      /\ Len(s) > MaxStackSize => Len(Limited(s)) = MaxStackSize
      /\ Len(s) <= MaxStackSize => Limited(s) = s
  BY <1>2, LimitedProperties
<1>5. undoStack' \in Seq(Command) /\ Len(undoStack') <= MaxStackSize /\ Len(undoStack') >= 1
  BY <1>1, <1>2, <1>3, <1>4, UndoAssumption
<1>6. canUndo' = TRUE
  <2>1. CASE undoStack = <<>>
    <3>1. Len(s) = 1 /\ Limited(s) = s
      BY <1>1, <1>2, <1>4, <2>1, UndoAssumption
    <3> QED
      BY <1>3, <3>1
  <2>2. CASE undoStack # <<>>
    BY <1>3, <2>2 DEF UInv, MenusAgree
  <2> QED
    BY <2>1, <2>2
<1>7. UndoTypeOK'
  BY <1>3, <1>5, <1>6, EmptySeq DEF UInv, UndoTypeOK
<1>8. HistoryBounded'
  <2>1. Len(redoStack') = 0 /\ Len(undoStack') \in Nat
    BY <1>3, <1>5, EmptySeq
  <2> QED
    BY <1>5, <2>1, UndoAssumption DEF HistoryBounded
<1>9. MenusAgree'
  <2>1. undoStack' # <<>>
    BY <1>5, EmptySeq
  <2> QED
    BY <1>3, <1>6, <2>1 DEF UInv, UndoTypeOK, MenusAgree
<1> QED
  BY <1>7, <1>8, <1>9 DEF UInv

\* Undo and redo move one command from stack to stack.
LEMMA MoveKeeps ==
    ASSUME NEW s \in Seq(Command), NEW t \in Seq(Command), NEW c \in Command, s # <<>>
    PROVE  /\ Front(s) \in Seq(Command) /\ Append(t, c) \in Seq(Command)
           /\ Len(Front(s)) + Len(Append(t, c)) = Len(s) + Len(t)
           /\ Append(t, c) # <<>>
           /\ Len(Append(t, c)) = 1 <=> t = <<>>
<1>1. Front(s) \in Seq(Command) /\ Len(Front(s)) = Len(s) - 1 /\ Len(s) \in Nat
  BY PopProperties
<1>2. Append(t, c) \in Seq(Command) /\ Len(Append(t, c)) = Len(t) + 1 /\ Len(t) \in Nat
  OBVIOUS
<1> QED
  BY <1>1, <1>2

LEMMA UndoKeeps ==
    ASSUME UInv, Undo PROVE UInv'
<1> DEFINE c == Last(undoStack)  r == Unexecute(c, doc)
<1>1. undoStack # <<>> /\ undoStack \in Seq(Command) /\ redoStack \in Seq(Command)
  BY DEF Undo, UInv, UndoTypeOK
<1>2. c \in Command
  BY <1>1, PopProperties
<1>3. CASE r.ok
  <2>1. /\ undoStack' = Front(undoStack) /\ redoStack' = Append(redoStack, c)
        /\ canUndo' = (undoStack' # <<>> /\ canUndo) /\ canRedo' = (Len(redoStack') = 1 \/ canRedo)
    BY <1>3 DEF Undo
  <2> HIDE DEF c
  <2> DEFINE f == Front(undoStack)
             a == Append(redoStack, c)
  <2>2. /\ f \in Seq(Command) /\ a \in Seq(Command)
        /\ Len(f) + Len(a) = Len(undoStack) + Len(redoStack)
        /\ a # <<>> /\ (Len(a) = 1 <=> redoStack = <<>>)
    BY ONLY <1>1, <1>2, MoveKeeps, Zenon
  <2>3. /\ undoStack' = f /\ redoStack' = a
        /\ canUndo' = (undoStack' # <<>> /\ canUndo) /\ canRedo' = (Len(redoStack') = 1 \/ canRedo)
    BY <2>1
  <2> HIDE DEF f, a
  <2>4. UndoTypeOK'
    BY <2>2, <2>3 DEF UInv, UndoTypeOK
  <2>5. HistoryBounded'
    BY <2>2, <2>3 DEF UInv, HistoryBounded
  <2>6. MenusAgree'
    BY <1>1, <2>2, <2>3, Zenon DEF UInv, UndoTypeOK, MenusAgree
  <2> QED
    BY <2>4, <2>5, <2>6 DEF UInv
<1>4. CASE ~r.ok
  BY <1>4 DEF Undo, UInv, UndoTypeOK, HistoryBounded, MenusAgree
<1> QED
  BY <1>3, <1>4

LEMMA RedoKeeps ==
    ASSUME UInv, Redo PROVE UInv'
<1> DEFINE c == Last(redoStack)  r == Execute(c, doc)
<1>1. redoStack # <<>> /\ undoStack \in Seq(Command) /\ redoStack \in Seq(Command)
  BY DEF Redo, UInv, UndoTypeOK
<1>2. c \in Command /\ Marked(c, TRUE) \in Command /\ Marked(c, FALSE) \in Command
  BY <1>1, PopProperties, MarkedIsCommand
<1>3. CASE r.ok
  <2>1. /\ redoStack' = Front(redoStack) /\ undoStack' = Append(undoStack, Marked(c, TRUE))
        /\ canRedo' = (redoStack' # <<>> /\ canRedo) /\ canUndo' = (Len(undoStack') = 1 \/ canUndo)
    BY <1>3 DEF Redo
  <2> DEFINE m == Marked(c, TRUE)
  <2>2. m \in Command /\ undoStack' = Append(undoStack, m)
    BY <1>2, <2>1
  <2> HIDE DEF m, c
  <2>3. /\ Front(redoStack) \in Seq(Command) /\ Append(undoStack, m) \in Seq(Command)
        /\ Len(Front(redoStack)) + Len(Append(undoStack, m)) = Len(redoStack) + Len(undoStack)
        /\ Append(undoStack, m) # <<>>
        /\ Len(Append(undoStack, m)) = 1 <=> undoStack = <<>>
    BY <1>1, <2>2, MoveKeeps
  <2>4. UndoTypeOK'
    BY <2>1, <2>2, <2>3 DEF UInv, UndoTypeOK
  <2>5. HistoryBounded'
    BY <1>1, <2>1, <2>2, <2>3, UndoAssumption DEF UInv, HistoryBounded
  <2>6. MenusAgree'
    BY <1>1, <2>1, <2>2, <2>3 DEF UInv, UndoTypeOK, MenusAgree
  <2> QED
    BY <2>4, <2>5, <2>6 DEF UInv
<1>4. CASE ~r.ok
  <2>1. redoStack' = Append(Front(redoStack), Marked(c, FALSE)) /\ UNCHANGED <<undoStack, canUndo, canRedo>>
    BY <1>4 DEF Redo
  <2>2. Front(redoStack) \in Seq(Command) /\ Len(Front(redoStack)) = Len(redoStack) - 1
    BY <1>1, PopProperties
  <2>3. redoStack' \in Seq(Command) /\ Len(redoStack') = Len(redoStack) /\ redoStack' # <<>>
    <3> DEFINE m == Marked(c, FALSE)
    <3>1. m \in Command /\ redoStack' = Append(Front(redoStack), m)
      BY <1>2, <2>1
    <3> HIDE DEF m
    <3>2. Append(Front(redoStack), m) \in Seq(Command) /\ Append(Front(redoStack), m) # <<>>
          /\ Len(Append(Front(redoStack), m)) = Len(Front(redoStack)) + 1
      BY <2>2, <3>1, AppendProperties
    <3> QED
      BY <1>1, <2>2, <3>1, <3>2, LenProperties
  <2> QED
    BY <1>1, <2>1, <2>3 DEF UInv, UndoTypeOK, HistoryBounded, MenusAgree
<1> QED
  BY <1>3, <1>4

LEMMA UndoStep == UInv /\ [Next]_vars => UInv'
<1> SUFFICES ASSUME UInv, [Next]_vars PROVE UInv'
  OBVIOUS
<1>1. ASSUME NEW c, Refused(c) PROVE UInv'
  BY <1>1 DEF Refused, UInv, UndoTypeOK, HistoryBounded, MenusAgree
<1>2. CASE Perform
  BY <1>1, <1>2, JoinKeeps, PushKeeps, BuiltAreCommands DEF Perform, Command
<1>3. CASE Clear
  <2>1. /\ undoStack' = <<>> /\ redoStack' = <<>>
        /\ canUndo' = (undoStack = <<>> /\ canUndo) /\ canRedo' = (redoStack = <<>> /\ canRedo)
    BY <1>3 DEF Clear
  <2>2. UndoTypeOK'
    BY <2>1, EmptySeq DEF UInv, UndoTypeOK
  <2>3. HistoryBounded'
    BY <2>1, EmptySeq, UndoAssumption DEF HistoryBounded
  <2>4. MenusAgree'
    BY <2>1 DEF UInv, UndoTypeOK, MenusAgree
  <2> QED
    BY <2>2, <2>3, <2>4 DEF UInv
<1>4. CASE UNCHANGED vars
  BY <1>4 DEF vars, UInv, UndoTypeOK, HistoryBounded, MenusAgree
<1> QED
  BY <1>2, <1>3, <1>4, UndoKeeps, RedoKeeps DEF Next

\* The invariant holds in every reachable state.
LEMMA UndoInvariant == Spec => []UInv
  BY UndoInit, UndoStep, PTL DEF Spec

\* The stacks hold commands, singles or groups, whatever was merged, undone
\* and redone.
THEOREM StacksTyped == Spec => []UndoTypeOK
<1>1. UInv => UndoTypeOK
  BY DEF UInv
<1> QED
  BY <1>1, UndoInvariant, PTL

\* The stacks together never hold more than the limit that only execute
\* enforces (UndoManager.execute, redo).
THEOREM LimitHolds == Spec => []HistoryBounded
<1>1. UInv => HistoryBounded
  BY DEF UInv
<1> QED
  BY <1>1, UndoInvariant, PTL

\* The menu entries agree with the stacks after every call, although signals
\* are sent on some changes only.
THEOREM MenusFollow == Spec => []MenusAgree
<1>1. UInv => MenusAgree
  BY DEF UInv
<1> QED
  BY <1>1, UndoInvariant, PTL

\* The stacks hold commands within the limit, and the menus follow them.
THEOREM StacksStaySound == Spec => []StacksSound
<1>1. UndoTypeOK /\ HistoryBounded /\ MenusAgree => StacksSound
  BY DEF StacksSound
<1> QED
  BY <1>1, StacksTyped, LimitHolds, MenusFollow, PTL
-----------------------------------------------------------------------------
(* What is seen of a document: the set of its channels and the setting.    *)

Documents == {d \in [channels : Seq(Channels), setting : Values] :
                 \A i, j \in DOMAIN d.channels : d.channels[i].name = d.channels[j].name => i = j}
Picture == {x \in [channels : SUBSET Channels, setting : Values] :
               \A a, b \in x.channels : a.name = b.name => a = b}
View(r) == Outcome(r.ok, Contents(r.doc))

NamesOf(S) == {a.name : a \in S}
Without(S, n) == {a \in S : a.name # n}

Painted(S, v) == [channels |-> S, setting |-> v]

\* The operations on the channel list, on pictures.
AddTo(x, c) ==
    IF c.name \in NamesOf(x.channels) THEN Outcome(FALSE, x)
    ELSE Outcome(TRUE, Painted(x.channels \cup {c}, x.setting))
UpdateIn(x, n, c) ==
    IF n \notin NamesOf(x.channels) THEN Outcome(FALSE, x)
    ELSE Outcome(TRUE, Painted(Without(x.channels, n) \cup {c}, x.setting))
RemoveFrom(x, n) ==
    IF n \notin NamesOf(x.channels) THEN Outcome(FALSE, x)
    ELSE Outcome(TRUE, Painted(Without(x.channels, n), x.setting))
SetTo(x, v) == Outcome(TRUE, Painted(x.channels, v))

\* A command and its inverse, on pictures.
RunOn(c, x) ==
    CASE c.kind = "add"    -> AddTo(x, c.new)
      [] c.kind = "remove" -> RemoveFrom(x, c.old.name)
      [] c.kind = "update" -> UpdateIn(x, c.name, c.new)
      [] c.kind = "set"    -> SetTo(x, c.new.value)
BackOn(c, x) ==
    CASE c.kind = "add"    -> RemoveFrom(x, c.new.name)
      [] c.kind = "remove" -> AddTo(x, c.old)
      [] c.kind = "update" -> UpdateIn(x, c.name, c.old)
      [] c.kind = "set"    -> SetTo(x, c.old.value)
Does(c, x, y) == RunOn(c, x) = Outcome(TRUE, y)

\* The command was built from picture x.
BuiltOn(c, x) ==
    /\ c \in Simple
    /\ c.kind = "add"    => c.old = c.new
    /\ c.kind = "remove" => c.old \in x.channels /\ c.new = c.old
    /\ c.kind = "update" => /\ c.old \in x.channels /\ c.old.name = c.name
                            /\ c.new.name = c.name \/ c.new.name \notin NamesOf(x.channels)
    /\ c.kind = "set"    => c.old.value = x.setting
Part(c, x) == BuiltOn(c, x) /\ ~Renames(c) /\ c.kind # "set"

\* The first n parts take picture x to picture y.
Path(parts, n, x, y) ==
    \E f \in [0 .. n -> Picture] :
        /\ f[0] = x /\ f[n] = y
        /\ \A i \in 1 .. n : Does(parts[i], f[i - 1], f[i])

\* A command, or a group, takes picture x, on which it was built, to y.
Leads(c, x, y) ==
    IF c.kind # "group" THEN BuiltOn(c, x) /\ Does(c, x, y)
    ELSE (\A i \in 1 .. Len(c.parts) : Part(c.parts[i], x)) /\ Path(c.parts, Len(c.parts), x, y)

Executed(c) == IF c.kind # "group" THEN c.done ELSE c.count = Len(c.parts)

\* The pictures of the stacks are one line that the commands follow.
NextOf(s, i, now) == IF i < Len(s) THEN s[i + 1] ELSE now
UndoLine(cs, p, now) ==
    /\ cs \in Seq(Command) /\ p \in Seq(Picture) /\ Len(p) = Len(cs)
    /\ \A i \in 1 .. Len(cs) : Leads(cs[i], p[i], NextOf(p, i, now))
                               /\ (Executed(cs[i]) \/ cs[i].kind = "update")
RedoLine(cs, f, now) ==
    /\ cs \in Seq(Command) /\ f \in Seq(Picture) /\ Len(f) = Len(cs)
    /\ \A i \in 1 .. Len(cs) : Leads(cs[i], NextOf(f, i, now), f[i])
                               /\ Executed(cs[i]) /\ ~Renames(cs[i])

HInv ==
    /\ UInv /\ doc \in Documents
    /\ UndoLine(undoStack, past, Contents(doc))
    /\ RedoLine(redoStack, future, Contents(doc))
    /\ OnlyMergedStick
-----------------------------------------------------------------------------
(* The operations on a document, as they are seen.                         *)

LEMMA OutcomeFields ==
    ASSUME NEW ok, NEW d
    PROVE  Outcome(ok, d).ok = ok /\ Outcome(ok, d).doc = d /\ View(Outcome(ok, d)) = Outcome(ok, Contents(d))
BY DEF Outcome, View

LEMMA DocTyped ==
    ASSUME NEW d \in Documents
    PROVE  /\ d.channels \in Seq(Channels) /\ d.setting \in Values /\ Len(d.channels) \in Nat
           /\ DOMAIN d.channels = 1 .. Len(d.channels)
           /\ d \in [channels : Seq(Channels), setting : Values]
           /\ \A i \in 1 .. Len(d.channels) : d.channels[i] \in Channels
           /\ \A i, j \in 1 .. Len(d.channels) : d.channels[i].name = d.channels[j].name => i = j
<1>1. d.channels \in Seq(Channels) /\ d.setting \in Values
  BY DEF Documents
<1>2. Len(d.channels) \in Nat /\ DOMAIN d.channels = 1 .. Len(d.channels)
  BY <1>1
<1> QED
  BY <1>1, <1>2 DEF Documents

LEMMA SeenTyped ==
    ASSUME NEW d \in Documents
    PROVE  /\ Contents(d) \in Picture
           /\ Contents(d).channels = {d.channels[i] : i \in 1 .. Len(d.channels)}
           /\ Contents(d).setting = d.setting
<1>1. Contents(d).channels = {d.channels[i] : i \in 1 .. Len(d.channels)} /\ Contents(d).setting = d.setting
  BY DocTyped DEF Contents, ToSet
<1>2. Contents(d) = [channels |-> Contents(d).channels, setting |-> Contents(d).setting]
  BY DEF Contents
<1>3. Contents(d).channels \subseteq Channels /\ d.setting \in Values
  BY <1>1, DocTyped
<1>4. \A a, b \in Contents(d).channels : a.name = b.name => a = b
  BY <1>1, DocTyped
<1> QED
  BY <1>1, <1>2, <1>3, <1>4 DEF Picture

\* The place of a name in the list, where it stands, and 0 where it does not.
LEMMA IndexOfName ==
    ASSUME NEW d \in Documents, NEW n
    PROVE  \/ IndexOf(d, n) = 0 /\ n \notin NamesOf(Contents(d).channels)
           \/ /\ IndexOf(d, n) \in 1 .. Len(d.channels) /\ IndexOf(d, n) # 0
              /\ d.channels[IndexOf(d, n)].name = n /\ n \in NamesOf(Contents(d).channels)
<1> DEFINE I == {i \in 1 .. Len(d.channels) : d.channels[i].name = n}
<1>1. IndexOf(d, n) = IF I # {} THEN Min(I) ELSE 0
  BY DEF IndexOf, SelectInSeq
<1>2. Len(d.channels) \in Nat /\ Contents(d).channels = {d.channels[i] : i \in 1 .. Len(d.channels)}
  BY DocTyped, SeenTyped
<1>3. CASE I = {}
  BY <1>1, <1>2, <1>3 DEF NamesOf
<1>4. CASE I # {}
  <2>1. I \in SUBSET Nat
    BY <1>2
  <2>2. \E m \in I : \A i \in I : m <= i
    BY <1>4, <2>1, LeastOf
  <2> HIDE DEF I
  <2>3. Min(I) \in I
    BY <2>2 DEF Min
  <2>4. Min(I) \in 1 .. Len(d.channels) /\ d.channels[Min(I)].name = n
    BY <2>3 DEF I
  <2>5. IndexOf(d, n) = Min(I)
    BY <1>1, <1>4
  <2> QED
    BY <1>2, <2>4, <2>5 DEF NamesOf
<1> QED
  BY <1>3, <1>4

\* No two channels have the same name.
Unambiguous(s) == \A i, j \in 1 .. Len(s) : s[i].name = s[j].name => i = j

\* A list that is a document's again.
LEMMA NewDocument ==
    ASSUME NEW d \in Documents, NEW s \in Seq(Channels), Unambiguous(s)
    PROVE  /\ [d EXCEPT !.channels = s] \in Documents
           /\ Contents([d EXCEPT !.channels = s]) =
                 Painted({s[i] : i \in 1 .. Len(s)}, d.setting)
<1>1. DOMAIN s = 1 .. Len(s)
  OBVIOUS
<1>2. /\ [d EXCEPT !.channels = s].channels = s /\ [d EXCEPT !.channels = s].setting = d.setting
      /\ [d EXCEPT !.channels = s] \in [channels : Seq(Channels), setting : Values]
  BY DocTyped
<1>3. [d EXCEPT !.channels = s] \in Documents
  BY <1>1, <1>2 DEF Documents, Unambiguous
<1> QED
  BY <1>1, <1>2, <1>3 DEF Contents, ToSet, Painted

LEMMA AddView ==
    ASSUME NEW d \in Documents, NEW c \in Channels
    PROVE  /\ AddChannel(d, c).doc \in Documents /\ View(AddChannel(d, c)) = AddTo(Contents(d), c)
           /\ AddChannel(d, c).ok \in BOOLEAN /\ (~AddChannel(d, c).ok => AddChannel(d, c).doc = d)
<1>1. CASE IndexOf(d, c.name) # 0
  BY <1>1, IndexOfName DEF AddChannel, AddTo, View, Outcome
<1>2. CASE IndexOf(d, c.name) = 0
  <2> DEFINE s == Append(d.channels, c)
  <2>1. c.name \notin NamesOf(Contents(d).channels)
    BY <1>2, IndexOfName
  <2>2. s \in Seq(Channels) /\ Len(s) = Len(d.channels) + 1 /\ s[Len(d.channels) + 1] = c
        /\ \A i \in 1 .. Len(d.channels) : s[i] = d.channels[i]
    BY DocTyped, AppendProperties
  <2>3. \A i \in 1 .. Len(s) : i \in 1 .. Len(d.channels) \/ i = Len(d.channels) + 1
    BY <2>2, DocTyped
  <2>4. \A i \in 1 .. Len(d.channels) : d.channels[i].name # c.name
    BY <2>1, SeenTyped DEF NamesOf
  <2>5. \A i, j \in 1 .. Len(s) : s[i].name = s[j].name => i = j
    BY <2>2, <2>3, <2>4, DocTyped
  <2>6. {s[i] : i \in 1 .. Len(s)} = Contents(d).channels \cup {c}
    <3>1. \A x : x \in {s[i] : i \in 1 .. Len(s)} => x \in Contents(d).channels \cup {c}
      BY <2>2, <2>3, SeenTyped
    <3>2. Len(d.channels) + 1 \in 1 .. Len(s) /\ \A i \in 1 .. Len(d.channels) : i \in 1 .. Len(s)
      BY <2>2, DocTyped
    <3>3. \A x : x \in Contents(d).channels \cup {c} => x \in {s[i] : i \in 1 .. Len(s)}
      BY <2>2, <3>2, SeenTyped
    <3> QED
      BY <3>1, <3>3
  <2>7. AddChannel(d, c) = Outcome(TRUE, [d EXCEPT !.channels = s])
    BY <1>2 DEF AddChannel
  <2> HIDE DEF s
  <2> DEFINE e == [d EXCEPT !.channels = s]
  <2>20. e \in Documents /\ Contents(e) = Painted({s[i] : i \in 1 .. Len(s)}, Contents(d).setting)
    <3>1. s \in Seq(Channels) /\ Unambiguous(s)
      BY <2>2, <2>5 DEF Unambiguous
    <3>2. e \in Documents /\ Contents(e) = Painted({s[i] : i \in 1 .. Len(s)}, d.setting)
      BY <3>1, NewDocument, Zenon
    <3> QED
      BY <3>2, SeenTyped, Zenon
  <2> HIDE DEF e
  <2>21. AddChannel(d, c) = Outcome(TRUE, e)
    BY <2>7 DEF e
  <2> QED
    <3>1. AddTo(Contents(d), c) = Outcome(TRUE, Painted(Contents(d).channels \cup {c}, Contents(d).setting))
      BY <2>1 DEF AddTo
    <3>2. Outcome(TRUE, e).ok = TRUE /\ Outcome(TRUE, e).doc = e /\ View(Outcome(TRUE, e)) = Outcome(TRUE, Contents(e))
      BY OutcomeFields
    <3>3. Contents(e) = Painted(Contents(d).channels \cup {c}, Contents(d).setting)
      BY <2>6, <2>20
    <3> QED
      BY <2>20, <2>21, <3>1, <3>2, <3>3, Zenon
<1> QED
  BY <1>1, <1>2

LEMMA UpdateView ==
    ASSUME NEW d \in Documents, NEW n, NEW c \in Channels,
           c.name = n \/ c.name \notin NamesOf(Contents(d).channels)
    PROVE  /\ UpdateChannel(d, n, c).doc \in Documents
           /\ View(UpdateChannel(d, n, c)) = UpdateIn(Contents(d), n, c)
           /\ UpdateChannel(d, n, c).ok \in BOOLEAN
           /\ ~UpdateChannel(d, n, c).ok => UpdateChannel(d, n, c).doc = d
<1>1. CASE IndexOf(d, n) = 0
  BY <1>1, IndexOfName DEF UpdateChannel, UpdateIn, View, Outcome
<1>2. CASE IndexOf(d, n) # 0
  <2> DEFINE k == IndexOf(d, n)
             s == [d.channels EXCEPT ![k] = c]
  <2>1. k \in 1 .. Len(d.channels) /\ d.channels[k].name = n /\ n \in NamesOf(Contents(d).channels)
    BY <1>2, IndexOfName
  <2>7. UpdateChannel(d, n, c) = Outcome(TRUE, [d EXCEPT !.channels = s])
    BY <1>2 DEF UpdateChannel
  <2> HIDE DEF k
  <2>2. s \in Seq(Channels) /\ Len(s) = Len(d.channels)
        /\ \A i \in 1 .. Len(d.channels) : s[i] = IF i = k THEN c ELSE d.channels[i]
    BY <2>1, DocTyped, ExceptSeq
  <2> HIDE DEF s
  <2>4. \A i \in 1 .. Len(d.channels) : i # k => d.channels[i].name # c.name
    BY <2>1, SeenTyped, DocTyped DEF NamesOf
  <2>5. \A i, j \in 1 .. Len(s) : s[i].name = s[j].name => i = j
    BY <2>2, <2>4, DocTyped
  <2>6. {s[i] : i \in 1 .. Len(s)} = Without(Contents(d).channels, n) \cup {c}
    BY <2>1, <2>2, SeenTyped, DocTyped DEF Without
  <2> DEFINE e == [d EXCEPT !.channels = s]
  <2>20. e \in Documents /\ Contents(e) = Painted({s[i] : i \in 1 .. Len(s)}, Contents(d).setting)
    <3>1. s \in Seq(Channels) /\ Unambiguous(s)
      BY <2>2, <2>5 DEF Unambiguous
    <3>2. e \in Documents /\ Contents(e) = Painted({s[i] : i \in 1 .. Len(s)}, d.setting)
      BY <3>1, NewDocument, Zenon
    <3> QED
      BY <3>2, SeenTyped, Zenon
  <2> HIDE DEF e
  <2>21. UpdateChannel(d, n, c) = Outcome(TRUE, e)
    BY <2>7 DEF e
  <2> QED
    <3>1. UpdateIn(Contents(d), n, c) = Outcome(TRUE, Painted(Without(Contents(d).channels, n) \cup {c}, Contents(d).setting))
      BY <2>1 DEF UpdateIn
    <3>2. Outcome(TRUE, e).ok = TRUE /\ Outcome(TRUE, e).doc = e /\ View(Outcome(TRUE, e)) = Outcome(TRUE, Contents(e))
      BY OutcomeFields
    <3>3. Contents(e) = Painted(Without(Contents(d).channels, n) \cup {c}, Contents(d).setting)
      BY <2>6, <2>20
    <3> QED
      BY <2>20, <2>21, <3>1, <3>2, <3>3, Zenon
<1> QED
  BY <1>1, <1>2

LEMMA RemoveView ==
    ASSUME NEW d \in Documents, NEW n
    PROVE  /\ RemoveChannel(d, n).doc \in Documents
           /\ View(RemoveChannel(d, n)) = RemoveFrom(Contents(d), n)
           /\ RemoveChannel(d, n).ok \in BOOLEAN
           /\ ~RemoveChannel(d, n).ok => RemoveChannel(d, n).doc = d
<1>1. CASE IndexOf(d, n) = 0
  BY <1>1, IndexOfName DEF RemoveChannel, RemoveFrom, View, Outcome
<1>2. CASE IndexOf(d, n) # 0
  <2> DEFINE k == IndexOf(d, n)
             s == RemoveAt(d.channels, k)
             m == Len(d.channels)
             h == SubSeq(d.channels, 1, k - 1)
             t == SubSeq(d.channels, k + 1, m)
  <2>1. k \in 1 .. m /\ d.channels[k].name = n /\ n \in NamesOf(Contents(d).channels)
    BY <1>2, IndexOfName
  <2>7. RemoveChannel(d, n) = Outcome(TRUE, [d EXCEPT !.channels = s])
    BY <1>2 DEF RemoveChannel
  <2>8. m \in Nat /\ d.channels \in Seq(Channels)
    BY DocTyped
  <2>9. s = h \o t
    BY DEF RemoveAt
  <2> HIDE DEF k, m
  <2>10. h \in Seq(Channels) /\ Len(h) = k - 1 /\ \A i \in 1 .. k - 1 : h[i] = d.channels[i]
    BY <2>1, <2>8, DocTyped, SubSeqProperties DEF m
  <2>11. t \in Seq(Channels) /\ Len(t) = m - k /\ \A i \in 1 .. m - k : t[i] = d.channels[k + i]
    BY <2>1, <2>8, DocTyped, SubSeqProperties DEF m
  <2> HIDE DEF h, t, s
  <2>2. s \in Seq(Channels) /\ Len(s) = m - 1
        /\ \A i \in 1 .. m - 1 : s[i] = IF i < k THEN d.channels[i] ELSE d.channels[i + 1]
    <3>1. s \in Seq(Channels) /\ Len(s) = Len(h) + Len(t)
          /\ \A i \in 1 .. Len(h) + Len(t) : s[i] = IF i <= Len(h) THEN h[i] ELSE t[i - Len(h)]
      BY <2>9, <2>10, <2>11, ConcatProperties
    <3>2. Len(h) + Len(t) = m - 1
      BY <2>1, <2>8, <2>10, <2>11
    <3>3. ASSUME NEW i \in 1 .. m - 1, i < k PROVE s[i] = d.channels[i]
      <4>1. i <= Len(h) /\ i \in 1 .. Len(h) + Len(t) /\ i \in 1 .. k - 1
        <5>1. k \in Int /\ i \in Int /\ 1 <= i /\ i <= k - 1 /\ i <= m - 1
          BY <2>1, <2>8, <3>3
        <5>2. Len(h) = k - 1
          BY <2>10
        <5> QED
          BY ONLY <3>2, <5>1, <5>2
      <4>2. s[i] = h[i]
        BY <3>1, <4>1
      <4> QED
        BY <2>10, <4>1, <4>2
    <3>4. ASSUME NEW i \in 1 .. m - 1, ~(i < k) PROVE s[i] = d.channels[i + 1]
      <4>1. i - (k - 1) \in 1 .. m - k /\ k + (i - (k - 1)) = i + 1 /\ ~(i <= k - 1)
        BY <2>1, <2>8, <3>4
      <4> QED
        BY <2>10, <2>11, <3>1, <3>2, <4>1
    <3> QED
      BY <3>1, <3>2, <3>3, <3>4
  <2>5. \A i, j \in 1 .. Len(s) : s[i].name = s[j].name => i = j
    <3> SUFFICES ASSUME NEW i \in 1 .. Len(s), NEW j \in 1 .. Len(s), s[i].name = s[j].name PROVE i = j
      OBVIOUS
    <3> DEFINE Old(x) == IF x < k THEN x ELSE x + 1
    <3>1. ASSUME NEW x \in 1 .. Len(s) PROVE Old(x) \in 1 .. m /\ s[x] = d.channels[Old(x)]
      <4>1. x \in 1 .. m - 1
        BY <2>2, <2>8
      <4>2. s[x] = IF x < k THEN d.channels[x] ELSE d.channels[x + 1]
        BY <2>2, <4>1
      <4> QED
        BY <2>1, <2>8, <4>1, <4>2
    <3>2. Old(i) = Old(j)
      <4> HIDE DEF Old
      <4> QED
        BY <3>1, DocTyped DEF m
    <3> QED
      BY <2>1, <2>2, <2>8, <3>2
  <2>6. {s[i] : i \in 1 .. Len(s)} = Without(Contents(d).channels, n)
    <3>1. ASSUME NEW i \in 1 .. Len(s) PROVE s[i] \in Without(Contents(d).channels, n)
      <4>1. PICK j \in 1 .. m : s[i] = d.channels[j] /\ j # k
        BY <2>1, <2>2, <2>8
      <4>2. d.channels[j].name # n
        BY <2>1, <4>1, DocTyped DEF m
      <4> QED
        BY <4>1, <4>2, SeenTyped DEF m, Without
    <3>2. ASSUME NEW a \in Without(Contents(d).channels, n) PROVE \E i \in 1 .. Len(s) : a = s[i]
      <4>1. PICK j \in 1 .. m : a = d.channels[j]
        BY <3>2, SeenTyped DEF m, Without
      <4>2. j # k
        BY <2>1, <4>1, <3>2 DEF Without
      <4>3. CASE j < k
        BY <2>1, <2>2, <2>8, <4>1, <4>3
      <4>4. CASE j > k
        <5>1. j - 1 \in 1 .. m - 1 /\ ~(j - 1 < k) /\ (j - 1) + 1 = j
          BY <2>1, <2>8, <4>1, <4>4
        <5> QED
          BY <2>2, <4>1, <5>1
      <4> QED
        BY <2>1, <4>1, <4>2, <4>3, <4>4
    <3> QED
      BY <3>1, <3>2
  <2> DEFINE e == [d EXCEPT !.channels = s]
  <2>20. e \in Documents /\ Contents(e) = Painted({s[i] : i \in 1 .. Len(s)}, Contents(d).setting)
    <3>1. s \in Seq(Channels) /\ Unambiguous(s)
      BY <2>2, <2>5 DEF Unambiguous
    <3>2. e \in Documents /\ Contents(e) = Painted({s[i] : i \in 1 .. Len(s)}, d.setting)
      BY <3>1, NewDocument, Zenon
    <3> QED
      BY <3>2, SeenTyped, Zenon
  <2> HIDE DEF e
  <2>21. RemoveChannel(d, n) = Outcome(TRUE, e)
    BY <2>7 DEF e
  <2> QED
    <3>1. RemoveFrom(Contents(d), n) = Outcome(TRUE, Painted(Without(Contents(d).channels, n), Contents(d).setting))
      BY <2>1 DEF RemoveFrom
    <3>2. Outcome(TRUE, e).ok = TRUE /\ Outcome(TRUE, e).doc = e /\ View(Outcome(TRUE, e)) = Outcome(TRUE, Contents(e))
      BY OutcomeFields
    <3>3. Contents(e) = Painted(Without(Contents(d).channels, n), Contents(d).setting)
      BY <2>6, <2>20
    <3> QED
      BY <2>20, <2>21, <3>1, <3>2, <3>3, Zenon
<1> QED
  BY <1>1, <1>2

LEMMA SetView ==
    ASSUME NEW d \in Documents, NEW v \in Values
    PROVE  /\ SetProperty(d, v).doc \in Documents /\ View(SetProperty(d, v)) = SetTo(Contents(d), v)
           /\ SetProperty(d, v).ok
<1> DEFINE e == [d EXCEPT !.setting = v]
<1>1. e \in [channels : Seq(Channels), setting : Values] /\ e.channels = d.channels /\ e.setting = v
  BY DocTyped
<1>2. SetProperty(d, v) = Outcome(TRUE, e)
  BY DEF SetProperty
<1> HIDE DEF e
<1>3. e \in Documents
  BY <1>1 DEF Documents
<1>4. Contents(e) = Painted(Contents(d).channels, v)
  BY <1>1 DEF Contents, Painted
<1> QED
  BY <1>2, <1>3, <1>4 DEF SetTo, View, Outcome
-----------------------------------------------------------------------------
(* Commands on documents and on pictures.                                  *)

LEMMA SimpleTyped ==
    ASSUME NEW c \in Simple
    PROVE  /\ c.kind \in Kinds /\ c.kind # "group" /\ c.old \in Channels /\ c.new \in Channels /\ c.done \in BOOLEAN
           /\ c.new.value \in Values /\ c.old.value \in Values
BY DEF Simple, Kinds, Values

\* What a command does to a document is what it does to its picture; a
\* command that fails does nothing.
LEMMA RunView ==
    ASSUME NEW d \in Documents, NEW c \in Simple,
           c.kind = "update" => c.new.name = c.name \/ c.new.name \notin NamesOf(Contents(d).channels)
    PROVE  /\ Run(c, d).doc \in Documents /\ View(Run(c, d)) = RunOn(c, Contents(d))
           /\ Run(c, d).ok \in BOOLEAN
           /\ ~Run(c, d).ok => Run(c, d).doc = d
<1>0. c.kind \in {"add", "remove", "update", "set"} /\ c.new \in Channels /\ c.new.value \in Values
  BY SimpleTyped DEF Kinds
<1>1. CASE c.kind = "add"
  <2>1. Run(c, d) = AddChannel(d, c.new) /\ RunOn(c, Contents(d)) = AddTo(Contents(d), c.new)
    BY <1>1 DEF Run, RunOn
  <2> QED
    BY <1>0, <2>1, AddView
<1>2. CASE c.kind = "remove"
  <2>1. Run(c, d) = RemoveChannel(d, c.old.name) /\ RunOn(c, Contents(d)) = RemoveFrom(Contents(d), c.old.name)
    BY <1>2 DEF Run, RunOn
  <2> QED
    BY <2>1, RemoveView
<1>3. CASE c.kind = "update"
  <2>1. Run(c, d) = UpdateChannel(d, c.name, c.new) /\ RunOn(c, Contents(d)) = UpdateIn(Contents(d), c.name, c.new)
    BY <1>3 DEF Run, RunOn
  <2> QED
    BY <1>0, <1>3, <2>1, UpdateView
<1>4. CASE c.kind = "set"
  <2>1. Run(c, d) = SetProperty(d, c.new.value) /\ RunOn(c, Contents(d)) = SetTo(Contents(d), c.new.value)
    BY <1>4 DEF Run, RunOn
  <2>2. Run(c, d).ok = TRUE
    BY <2>1 DEF SetProperty, Outcome
  <2> QED
    BY <1>0, <2>1, <2>2, SetView
<1> QED
  BY <1>0, <1>1, <1>2, <1>3, <1>4

LEMMA BackView ==
    ASSUME NEW d \in Documents, NEW c \in Simple, c.kind = "update" => c.old.name = c.name
    PROVE  /\ TakeBack(c, d).doc \in Documents /\ View(TakeBack(c, d)) = BackOn(c, Contents(d))
           /\ TakeBack(c, d).ok \in BOOLEAN
           /\ ~TakeBack(c, d).ok => TakeBack(c, d).doc = d
<1>0. c.kind \in {"add", "remove", "update", "set"} /\ c.old \in Channels /\ c.old.value \in Values
  BY SimpleTyped DEF Kinds
<1>1. CASE c.kind = "add"
  <2>1. TakeBack(c, d) = RemoveChannel(d, c.new.name) /\ BackOn(c, Contents(d)) = RemoveFrom(Contents(d), c.new.name)
    BY <1>1 DEF TakeBack, BackOn
  <2> QED
    BY <2>1, RemoveView
<1>2. CASE c.kind = "remove"
  <2>1. TakeBack(c, d) = AddChannel(d, c.old) /\ BackOn(c, Contents(d)) = AddTo(Contents(d), c.old)
    BY <1>2 DEF TakeBack, BackOn
  <2> QED
    BY <1>0, <2>1, AddView
<1>3. CASE c.kind = "update"
  <2>1. TakeBack(c, d) = UpdateChannel(d, c.name, c.old) /\ BackOn(c, Contents(d)) = UpdateIn(Contents(d), c.name, c.old)
    BY <1>3 DEF TakeBack, BackOn
  <2> QED
    BY <1>0, <1>3, <2>1, UpdateView
<1>4. CASE c.kind = "set"
  <2>1. TakeBack(c, d) = SetProperty(d, c.old.value) /\ BackOn(c, Contents(d)) = SetTo(Contents(d), c.old.value)
    BY <1>4 DEF TakeBack, BackOn
  <2>2. TakeBack(c, d).ok = TRUE
    BY <2>1 DEF SetProperty, Outcome
  <2> QED
    BY <1>0, <2>1, <2>2, SetView
<1> QED
  BY <1>0, <1>1, <1>2, <1>3, <1>4

LEMMA PaintedFields == ASSUME NEW S, NEW v PROVE Painted(S, v).channels = S /\ Painted(S, v).setting = v
BY DEF Painted

LEMMA SamePicture ==
    ASSUME NEW x \in Picture, NEW y \in Picture, x.channels = y.channels, x.setting = y.setting
    PROVE  x = y
BY DEF Picture

LEMMA OutcomesDiffer ==
    ASSUME NEW x, NEW y, NEW b
    PROVE  /\ Outcome(FALSE, x) # Outcome(TRUE, y)
           /\ Outcome(b, x) = Outcome(b, y) => x = y
BY DEF Outcome

\* What a command that succeeds has found and made.
LEMMA DoesWhat ==
    ASSUME NEW c, NEW x, NEW y, Does(c, x, y)
    PROVE  /\ c.kind = "add" => /\ c.new.name \notin NamesOf(x.channels)
                                /\ y = Painted(x.channels \cup {c.new}, x.setting)
           /\ c.kind = "remove" => /\ c.old.name \in NamesOf(x.channels)
                                   /\ y = Painted(Without(x.channels, c.old.name), x.setting)
           /\ c.kind = "update" => /\ c.name \in NamesOf(x.channels)
                                   /\ y = Painted(Without(x.channels, c.name) \cup {c.new}, x.setting)
           /\ c.kind = "set" => y = Painted(x.channels, c.new.value)
<1>1. CASE c.kind = "add"
  <2>1. RunOn(c, x) = AddTo(x, c.new)
    BY <1>1 DEF RunOn
  <2> QED
    BY <1>1, <2>1, OutcomesDiffer DEF Does, AddTo
<1>2. CASE c.kind = "remove"
  <2>1. RunOn(c, x) = RemoveFrom(x, c.old.name)
    BY <1>2 DEF RunOn
  <2> QED
    BY <1>2, <2>1, OutcomesDiffer DEF Does, RemoveFrom
<1>3. CASE c.kind = "update"
  <2>1. RunOn(c, x) = UpdateIn(x, c.name, c.new)
    BY <1>3 DEF RunOn
  <2> QED
    BY <1>3, <2>1, OutcomesDiffer DEF Does, UpdateIn
<1>4. CASE c.kind = "set"
  <2>1. RunOn(c, x) = SetTo(x, c.new.value)
    BY <1>4 DEF RunOn
  <2> QED
    BY <1>4, <2>1, OutcomesDiffer DEF Does, SetTo
<1> QED
  BY <1>1, <1>2, <1>3, <1>4

\* What taking a command back makes where it succeeds.
LEMMA BackWhat ==
    ASSUME NEW c, NEW x
    PROVE  /\ c.kind = "add" /\ c.new.name \in NamesOf(x.channels) =>
                BackOn(c, x) = Outcome(TRUE, Painted(Without(x.channels, c.new.name), x.setting))
           /\ c.kind = "remove" /\ c.old.name \notin NamesOf(x.channels) =>
                BackOn(c, x) = Outcome(TRUE, Painted(x.channels \cup {c.old}, x.setting))
           /\ c.kind = "update" /\ c.name \in NamesOf(x.channels) =>
                BackOn(c, x) = Outcome(TRUE, Painted(Without(x.channels, c.name) \cup {c.old}, x.setting))
           /\ c.kind = "update" /\ c.name \notin NamesOf(x.channels) => BackOn(c, x) = Outcome(FALSE, x)
           /\ c.kind = "set" => BackOn(c, x) = Outcome(TRUE, Painted(x.channels, c.old.value))
BY DEF BackOn, RemoveFrom, AddTo, UpdateIn, SetTo

\* Picture b has the names of picture r, and each of its channels is r's or
\* was there at the beginning, in x.
Near(b, r, x) ==
    /\ NamesOf(b.channels) = NamesOf(r.channels) /\ b.setting = r.setting
    /\ b.channels \subseteq r.channels \cup x.channels

LEMMA NearEnds == ASSUME NEW x \in Picture, NEW b \in Picture, Near(b, x, x) PROVE b = x
<1>1. b.channels \subseteq x.channels
  BY DEF Near
<1>2. ASSUME NEW a \in x.channels PROVE a \in b.channels
  <2>1. PICK e \in b.channels : e.name = a.name
    BY DEF Near, NamesOf
  <2> QED
    BY <1>1, <2>1 DEF Picture
<1>3. b.channels = x.channels
  BY <1>1, <1>2
<1>4. b.setting = x.setting
  BY DEF Near
<1> QED
  BY <1>3, <1>4, SamePicture

\* A part of a group is taken back from a picture near the one it made.
LEMMA NearStep ==
    ASSUME NEW x, NEW c, Part(c, x), NEW r, NEW s, Does(c, r, s), NEW b, Near(b, s, x)
    PROVE  \E e : BackOn(c, b) = Outcome(TRUE, e) /\ Near(e, r, x)
<1>0. c.kind \in {"add", "remove", "update"} /\ c \in Simple
  BY SimpleTyped DEF Part, BuiltOn, Kinds
<1>1. CASE c.kind = "add"
  <2>1. c.new.name \notin NamesOf(r.channels) /\ s.channels = r.channels \cup {c.new} /\ s.setting = r.setting
    <3>1. c.new.name \notin NamesOf(r.channels) /\ s = Painted(r.channels \cup {c.new}, r.setting)
      BY <1>1, DoesWhat
    <3> QED
      BY <3>1, PaintedFields
  <2> DEFINE e == Painted(Without(b.channels, c.new.name), b.setting)
  <2>2. BackOn(c, b) = Outcome(TRUE, e)
    <3>1. c.new.name \in NamesOf(s.channels)
      BY <2>1 DEF NamesOf
    <3>2. c.new.name \in NamesOf(b.channels)
      BY <3>1 DEF Near
    <3> QED
      BY <1>1, <3>2, BackWhat
  <2>3. e.channels = Without(b.channels, c.new.name) /\ e.setting = b.setting
    BY PaintedFields
  <2> HIDE DEF e
  <2>4. NamesOf(e.channels) = NamesOf(r.channels)
    <3>1. NamesOf(b.channels) = NamesOf(r.channels) \cup {c.new.name}
      BY <2>1 DEF Near, NamesOf
    <3>2. NamesOf(e.channels) = NamesOf(b.channels) \ {c.new.name}
      BY <2>3 DEF NamesOf, Without
    <3> QED
      BY <2>1, <3>1, <3>2
  <2>5. e.channels \subseteq r.channels \cup x.channels
    BY <2>1, <2>3 DEF Near, Without
  <2> QED
    BY <2>1, <2>2, <2>3, <2>4, <2>5 DEF Near
<1>2. CASE c.kind = "remove"
  <2>1. /\ c.old.name \in NamesOf(r.channels) /\ s.channels = Without(r.channels, c.old.name) /\ s.setting = r.setting
        /\ c.old \in x.channels
    <3>1. c.old.name \in NamesOf(r.channels) /\ s = Painted(Without(r.channels, c.old.name), r.setting)
      BY <1>2, DoesWhat
    <3>2. c.old \in x.channels
      BY <1>2 DEF Part, BuiltOn
    <3> QED
      BY <3>1, <3>2, PaintedFields
  <2> DEFINE e == Painted(b.channels \cup {c.old}, b.setting)
  <2>2. NamesOf(s.channels) = NamesOf(r.channels) \ {c.old.name}
    BY <2>1 DEF NamesOf, Without
  <2>3. BackOn(c, b) = Outcome(TRUE, e)
    BY <1>2, <2>2, BackWhat DEF Near
  <2>4. e.channels = b.channels \cup {c.old} /\ e.setting = b.setting
    BY PaintedFields
  <2> HIDE DEF e
  <2>5. NamesOf(e.channels) = NamesOf(r.channels)
    <3>1. NamesOf(e.channels) = NamesOf(b.channels) \cup {c.old.name}
      BY <2>4 DEF NamesOf
    <3> QED
      BY <2>1, <2>2, <3>1 DEF Near
  <2>6. e.channels \subseteq r.channels \cup x.channels
    BY <2>1, <2>4 DEF Near, Without
  <2> QED
    BY <2>1, <2>3, <2>4, <2>5, <2>6 DEF Near
<1>3. CASE c.kind = "update"
  <2>1. /\ c.name \in NamesOf(r.channels) /\ s.channels = Without(r.channels, c.name) \cup {c.new} /\ s.setting = r.setting
        /\ c.old \in x.channels /\ c.old.name = c.name /\ c.new.name = c.name
    <3>1. c.name \in NamesOf(r.channels) /\ s = Painted(Without(r.channels, c.name) \cup {c.new}, r.setting)
      BY <1>3, DoesWhat
    <3>2. c.old \in x.channels /\ c.old.name = c.name /\ c.new.name = c.name
      BY <1>3 DEF Part, BuiltOn, Renames
    <3> QED
      BY <3>1, <3>2, PaintedFields
  <2> DEFINE e == Painted(Without(b.channels, c.name) \cup {c.old}, b.setting)
  <2>2. NamesOf(s.channels) = NamesOf(r.channels)
    BY <2>1 DEF NamesOf, Without
  <2>3. BackOn(c, b) = Outcome(TRUE, e)
    <3>1. c.name \in NamesOf(b.channels)
      BY <2>1, <2>2 DEF Near
    <3> QED
      BY <1>3, <3>1, BackWhat
  <2>4. e.channels = Without(b.channels, c.name) \cup {c.old} /\ e.setting = b.setting
    BY PaintedFields
  <2> HIDE DEF e
  <2>5. NamesOf(e.channels) = NamesOf(b.channels)
    <3>1. c.name \in NamesOf(b.channels)
      BY <2>1, <2>2 DEF Near
    <3> QED
      BY <2>1, <2>4, <3>1 DEF NamesOf, Without
  <2>6. e.channels \subseteq r.channels \cup x.channels
    BY <2>1, <2>4 DEF Near, Without
  <2> QED
    BY <2>1, <2>2, <2>3, <2>4, <2>5, <2>6 DEF Near
<1> QED
  BY <1>0, <1>1, <1>2, <1>3
-----------------------------------------------------------------------------
(* A group forth and back.                                                 *)

Runs == [ok : BOOLEAN, doc : Documents, ran : Nat]
RunStep(r, c) ==
    IF ~r.ok THEN r
    ELSE LET s == Run(c, r.doc)
         IN [ok |-> s.ok, doc |-> s.doc, ran |-> r.ran + (IF s.ok THEN 1 ELSE 0)]

Backs == [ok : BOOLEAN, doc : Documents]
BackStep(r, c) == LET s == TakeBack(c, r.doc) IN Outcome(r.ok /\ s.ok, s.doc)

LEMMA PartRuns ==
    ASSUME NEW d \in Documents, NEW x, NEW c, Part(c, x)
    PROVE  /\ Run(c, d).doc \in Documents /\ View(Run(c, d)) = RunOn(c, Contents(d))
           /\ Run(c, d).ok \in BOOLEAN /\ (~Run(c, d).ok => Run(c, d).doc = d)
           /\ TakeBack(c, d).doc \in Documents /\ View(TakeBack(c, d)) = BackOn(c, Contents(d))
           /\ TakeBack(c, d).ok \in BOOLEAN
<1>1. c \in Simple /\ (c.kind = "update" => c.new.name = c.name /\ c.old.name = c.name)
  BY DEF Part, BuiltOn, Renames
<1> QED
  BY <1>1, RunView, BackView

\* A group runs part by part.
LEMMA RunSteps ==
    ASSUME NEW d \in Documents, NEW ps \in Seq(Simple), NEW x0, \A i \in 1 .. Len(ps) : Part(ps[i], x0)
    PROVE  \E a \in [0 .. Len(ps) -> Runs] :
              /\ a[0] = [ok |-> TRUE, doc |-> d, ran |-> 0] /\ RunParts(ps, d) = a[Len(ps)]
              /\ \A k \in 1 .. Len(ps) : a[k] = RunStep(a[k - 1], ps[k])
<1> DEFINE s == ps
           N == Len(s)
           F == [k \in 1 .. N |-> [x \in Runs |-> RunStep(x, s[k])]]
           Value(h, t) == IF t = {} THEN [ok |-> TRUE, doc |-> d, ran |-> 0] ELSE RunStep(h[t \ {Max(t)}], s[Max(t)])
<1>1. N \in Nat /\ DOMAIN s = 1 .. N
  BY LenProperties
<1>2. [ok |-> TRUE, doc |-> d, ran |-> 0] \in Runs
  BY DEF Runs
<1>c. ASSUME NEW k \in 1 .. N, NEW x \in Runs PROVE RunStep(x, s[k]) \in Runs
  <2>1. x.doc \in Documents /\ x.ran \in Nat /\ x.ok \in BOOLEAN /\ Part(s[k], x0)
    BY DEF Runs
  <2>2. Run(s[k], x.doc).doc \in Documents /\ Run(s[k], x.doc).ok \in BOOLEAN
    BY <2>1, PartRuns
  <2> QED
    BY <2>1, <2>2 DEF Runs, RunStep
<1> HIDE DEF s
<1>3. F \in [1 .. N -> [Runs -> Runs]]
  BY <1>1, <1>c
<1>t. ASSUME NEW t \in SUBSET (1 .. N), t # {} PROVE Max(t) \in 1 .. N /\ t \ {Max(t)} \in SUBSET (1 .. N)
  <2>1. Max(t) \in t
    BY <1>1, <1>t, MaxOf
  <2> QED
    BY <2>1
<1> HIDE DEF N
<1>f. \A k \in 1 .. N : \A x \in Runs : F[k][x] = RunStep(x, s[k])
  OBVIOUS
<1> HIDE DEF F
<1>4. \E h : h = [t \in SUBSET (1 .. N) |-> Value(h, t)]
  <2>1. PICK h \in [SUBSET (1 .. N) -> Runs] : Folds(h, N, Runs, [ok |-> TRUE, doc |-> d, ran |-> 0], F)
    BY <1>1, <1>2, <1>3, FoldExists
  <2>2. \A t \in SUBSET (1 .. N) : h[t] = Value(h, t)
    <3> TAKE t \in SUBSET (1 .. N)
    <3>1. CASE t = {}
      BY <2>1, <3>1 DEF Folds
    <3>2. CASE t # {}
      <4>1. Max(t) \in 1 .. N /\ h[t \ {Max(t)}] \in Runs
        BY <1>t, <3>2
      <4>2. h[t] = F[Max(t)][h[t \ {Max(t)}]]
        BY <2>1, <3>2 DEF Folds
      <4> QED
        BY <1>f, <3>2, <4>1, <4>2
    <3> QED
      BY <3>1, <3>2
  <2>3. h = [t \in SUBSET (1 .. N) |-> h[t]]
    BY <2>1
  <2> HIDE DEF Value
  <2> QED
    BY <2>2, <2>3
<1>5. PICK h : h = [t \in SUBSET (1 .. N) |-> Value(h, t)] /\ RunParts(ps, d) = h[1 .. N]
  <2>1. \E h : h = [t \in SUBSET (DOMAIN s) |-> Value(h, t)]
    BY <1>1, <1>4
  <2>2. \E h : h = [t \in SUBSET (DOMAIN s) |-> Value(h, t)] /\ RunParts(ps, d) = h[DOMAIN s]
    BY <2>1 DEF RunParts, RunStep, FoldLeft, MapThenFoldSet, s
  <2> QED
    BY <1>1, <2>2
<1>6. h[{}] = [ok |-> TRUE, doc |-> d, ran |-> 0]
  BY <1>5
<1>7. \A t \in SUBSET (1 .. N) : t # {} /\ h[t \ {Max(t)}] \in Runs =>
         h[t] = F[Max(t)][h[t \ {Max(t)}]]
  <2> TAKE t \in SUBSET (1 .. N)
  <2> HAVE t # {} /\ h[t \ {Max(t)}] \in Runs
  <2>1. Max(t) \in 1 .. N
    BY <1>t
  <2>2. h[t] = Value(h, t)
    BY <1>5
  <2> QED
    BY <1>f, <2>1, <2>2
<1>8. Follows(h, N, Runs, [ok |-> TRUE, doc |-> d, ran |-> 0], F)
  BY <1>6, <1>7 DEF Follows
<1>9. PICK a : Through(a, N, Runs, [ok |-> TRUE, doc |-> d, ran |-> 0], F) /\ h[1 .. N] = a[N]
  BY <1>1, <1>2, <1>3, <1>8, FoldSteps
<1>10. ASSUME NEW k \in 1 .. N PROVE a[k] = RunStep(a[k - 1], s[k])
  <2>1. k - 1 \in 0 .. N
    BY <1>1
  <2> QED
    BY <1>9, <1>f, <2>1 DEF Through
<1>11. RunParts(ps, d) = a[N]
  BY <1>5, <1>9
<1> QED
  BY <1>9, <1>10, <1>11 DEF N, s, Through

\* A group is taken back part by part, the last first.
LEMMA BackSteps ==
    ASSUME NEW d \in Documents, NEW ps \in Seq(Simple), NEW x0, \A i \in 1 .. Len(ps) : Part(ps[i], x0)
    PROVE  \E a \in [0 .. Len(Reverse(ps)) -> Backs] :
              /\ a[0] = Outcome(TRUE, d) /\ TakeBackParts(ps, d) = a[Len(Reverse(ps))]
              /\ \A k \in 1 .. Len(Reverse(ps)) : a[k] = BackStep(a[k - 1], Reverse(ps)[k])
<1> DEFINE s == Reverse(ps)
           N == Len(s)
           F == [k \in 1 .. N |-> [x \in Backs |-> BackStep(x, s[k])]]
           Value(h, t) == IF t = {} THEN Outcome(TRUE, d) ELSE BackStep(h[t \ {Max(t)}], s[Max(t)])
<1>1. N \in Nat /\ DOMAIN s = 1 .. N
  <2>1. Len(ps) \in Nat /\ s = [i \in 1 .. Len(ps) |-> ps[(Len(ps) - i) + 1]]
    BY LenProperties DEF Reverse
  <2>2. s \in Seq(Simple)
    <3>1. \A i \in 1 .. Len(ps) : (Len(ps) - i) + 1 \in 1 .. Len(ps)
      BY <2>1
    <3>2. \A i \in 1 .. Len(ps) : ps[(Len(ps) - i) + 1] \in Simple
      BY <3>1, ElementOfSeq
    <3> HIDE DEF s
    <3> QED
      BY <2>1, <3>2, IsASeq
  <2> HIDE DEF s
  <2> QED
    BY <2>2, LenProperties
<1>2. Outcome(TRUE, d) \in Backs
  BY DEF Backs, Outcome
<1>c. ASSUME NEW k \in 1 .. N, NEW x \in Backs PROVE BackStep(x, s[k]) \in Backs
  <2>1. Len(ps) \in Nat /\ s = [i \in 1 .. Len(ps) |-> ps[(Len(ps) - i) + 1]]
    BY LenProperties DEF Reverse
  <2> HIDE DEF s
  <2>2. N = Len(ps)
    BY <2>1, <1>1, SameInterval
  <2>3. s[k] = ps[(Len(ps) - k) + 1] /\ (Len(ps) - k) + 1 \in 1 .. Len(ps)
    BY <2>1, <2>2
  <2>4. x.doc \in Documents /\ x.ok \in BOOLEAN /\ Part(s[k], x0)
    BY <2>3 DEF Backs
  <2>5. TakeBack(s[k], x.doc).doc \in Documents /\ TakeBack(s[k], x.doc).ok \in BOOLEAN
    BY <2>4, PartRuns
  <2> QED
    BY <2>4, <2>5 DEF Backs, BackStep, Outcome
<1> HIDE DEF s
<1>3. F \in [1 .. N -> [Backs -> Backs]]
  BY <1>1, <1>c
<1>t. ASSUME NEW t \in SUBSET (1 .. N), t # {} PROVE Max(t) \in 1 .. N /\ t \ {Max(t)} \in SUBSET (1 .. N)
  <2>1. Max(t) \in t
    BY <1>1, <1>t, MaxOf
  <2> QED
    BY <2>1
<1> HIDE DEF N
<1>f. \A k \in 1 .. N : \A x \in Backs : F[k][x] = BackStep(x, s[k])
  OBVIOUS
<1> HIDE DEF F
<1>4. \E h : h = [t \in SUBSET (1 .. N) |-> Value(h, t)]
  <2>1. PICK h \in [SUBSET (1 .. N) -> Backs] : Folds(h, N, Backs, Outcome(TRUE, d), F)
    BY <1>1, <1>2, <1>3, FoldExists
  <2>2. \A t \in SUBSET (1 .. N) : h[t] = Value(h, t)
    <3> TAKE t \in SUBSET (1 .. N)
    <3>1. CASE t = {}
      BY <2>1, <3>1 DEF Folds
    <3>2. CASE t # {}
      <4>1. Max(t) \in 1 .. N /\ h[t \ {Max(t)}] \in Backs
        BY <1>t, <3>2
      <4>2. h[t] = F[Max(t)][h[t \ {Max(t)}]]
        BY <2>1, <3>2 DEF Folds
      <4> QED
        BY <1>f, <3>2, <4>1, <4>2
    <3> QED
      BY <3>1, <3>2
  <2>3. h = [t \in SUBSET (1 .. N) |-> h[t]]
    BY <2>1
  <2> HIDE DEF Value
  <2> QED
    BY <2>2, <2>3
<1>5. PICK h : h = [t \in SUBSET (1 .. N) |-> Value(h, t)] /\ TakeBackParts(ps, d) = h[1 .. N]
  <2>1. \E h : h = [t \in SUBSET (DOMAIN s) |-> Value(h, t)]
    BY <1>1, <1>4
  <2>2. \E h : h = [t \in SUBSET (DOMAIN s) |-> Value(h, t)] /\ TakeBackParts(ps, d) = h[DOMAIN s]
    BY <2>1 DEF TakeBackParts, BackStep, FoldLeft, MapThenFoldSet, s
  <2> QED
    BY <1>1, <2>2
<1>6. h[{}] = Outcome(TRUE, d)
  BY <1>5
<1>7. \A t \in SUBSET (1 .. N) : t # {} /\ h[t \ {Max(t)}] \in Backs =>
         h[t] = F[Max(t)][h[t \ {Max(t)}]]
  <2> TAKE t \in SUBSET (1 .. N)
  <2> HAVE t # {} /\ h[t \ {Max(t)}] \in Backs
  <2>1. Max(t) \in 1 .. N
    BY <1>t
  <2>2. h[t] = Value(h, t)
    BY <1>5
  <2> QED
    BY <1>f, <2>1, <2>2
<1>8. Follows(h, N, Backs, Outcome(TRUE, d), F)
  BY <1>6, <1>7 DEF Follows
<1>9. PICK a : Through(a, N, Backs, Outcome(TRUE, d), F) /\ h[1 .. N] = a[N]
  <2> DEFINE z == Outcome(TRUE, d)
  <2>1. z \in Backs /\ Follows(h, N, Backs, z, F)
    BY <1>2, <1>8
  <2> HIDE DEF z
  <2>2. \E a : Through(a, N, Backs, z, F) /\ h[1 .. N] = a[N]
    BY <1>1, <1>3, <2>1, FoldSteps
  <2> QED
    BY <2>2 DEF z
<1>10. ASSUME NEW k \in 1 .. N PROVE a[k] = BackStep(a[k - 1], s[k])
  <2>1. k - 1 \in 0 .. N
    BY <1>1
  <2> QED
    BY <1>9, <1>f, <2>1 DEF Through
<1>11. TakeBackParts(ps, d) = a[N]
  BY <1>5, <1>9
<1> QED
  BY <1>9, <1>10, <1>11 DEF N, s, Through

\* A path goes one part further.
LEMMA PathExtends ==
    ASSUME NEW ps, NEW n \in Nat, NEW x, NEW y, NEW z \in Picture, Path(ps, n, x, y), Does(ps[n + 1], y, z)
    PROVE  Path(ps, n + 1, x, z)
<1>1. PICK f \in [0 .. n -> Picture] :
          f[0] = x /\ f[n] = y /\ \A i \in 1 .. n : Does(ps[i], f[i - 1], f[i])
  BY DEF Path
<1> DEFINE g == [i \in 0 .. n + 1 |-> IF i = n + 1 THEN z ELSE f[i]]
<1>2. g \in [0 .. n + 1 -> Picture] /\ g[n + 1] = z /\ \A i \in 0 .. n : g[i] = f[i]
  OBVIOUS
<1> HIDE DEF g
<1>3. g[0] = x
  BY <1>1, <1>2
<1>4. ASSUME NEW i \in 1 .. n + 1 PROVE Does(ps[i], g[i - 1], g[i])
  <2>1. CASE i \in 1 .. n
    <3>1. g[i - 1] = f[i - 1] /\ g[i] = f[i]
      BY <1>2, <2>1
    <3> QED
      BY <1>1, <2>1, <3>1
  <2>2. CASE i = n + 1
    <3>1. g[i - 1] = y /\ g[i] = z
      BY <1>1, <1>2, <2>2
    <3> QED
      BY <2>2, <3>1
  <2> QED
    BY <2>1, <2>2
<1> QED
  BY <1>2, <1>3, <1>4 DEF Path

LEMMA SeenRun ==
    ASSUME NEW d \in Documents, NEW x, NEW c, Part(c, x)
    PROVE  /\ Run(c, d).ok => Does(c, Contents(d), Contents(Run(c, d).doc))
           /\ \A y : Does(c, Contents(d), y) => Run(c, d).ok /\ Contents(Run(c, d).doc) = y
<1>1. Outcome(Run(c, d).ok, Contents(Run(c, d).doc)) = RunOn(c, Contents(d)) /\ Run(c, d).ok \in BOOLEAN
  BY PartRuns DEF View
<1>2. CASE Run(c, d).ok = TRUE
  BY <1>1, <1>2, OutcomesDiffer DEF Does
<1>3. CASE Run(c, d).ok = FALSE
  BY <1>1, <1>3, OutcomesDiffer DEF Does
<1> QED
  BY <1>1, <1>2, <1>3

\* A group goes as far as its parts do, and completes where they all do.
LEMMA RunPath ==
    ASSUME NEW d \in Documents, NEW ps \in Seq(Simple), NEW x0, \A i \in 1 .. Len(ps) : Part(ps[i], x0)
    PROVE  /\ RunParts(ps, d) \in Runs /\ RunParts(ps, d).ran \in 0 .. Len(ps)
           /\ RunParts(ps, d).ok => RunParts(ps, d).ran = Len(ps)
           /\ Path(ps, RunParts(ps, d).ran, Contents(d), Contents(RunParts(ps, d).doc))
<1>1. PICK a \in [0 .. Len(ps) -> Runs] :
          /\ a[0] = [ok |-> TRUE, doc |-> d, ran |-> 0] /\ RunParts(ps, d) = a[Len(ps)]
          /\ \A k \in 1 .. Len(ps) : a[k] = RunStep(a[k - 1], ps[k])
  BY RunSteps
<1>2. Len(ps) \in Nat
  BY LenProperties
<1> DEFINE Good == {k \in 0 .. Len(ps) : /\ a[k].ran \in 0 .. k /\ (a[k].ok => a[k].ran = k)
                                        /\ Path(ps, a[k].ran, Contents(d), Contents(a[k].doc))}
<1>3. 0 \in Good
  <2>1. a[0].ran = 0 /\ a[0].doc = d
    BY <1>1
  <2>2. Path(ps, 0, Contents(d), Contents(d))
    <3> DEFINE f == [i \in 0 .. 0 |-> Contents(d)]
    <3>1. f \in [0 .. 0 -> Picture] /\ f[0] = Contents(d)
      BY SeenTyped
    <3> HIDE DEF f
    <3> QED
      BY <3>1 DEF Path
  <2> QED
    BY <1>2, <2>1, <2>2
<1>4. ASSUME NEW k \in 0 .. Len(ps) - 1, k \in Good PROVE k + 1 \in Good
  <2>1. k + 1 \in 1 .. Len(ps) /\ k + 1 \in 0 .. Len(ps) /\ k \in 0 .. Len(ps) /\ (k + 1) - 1 = k /\ k \in Nat
    BY <1>2
  <2>2. a[k + 1] = RunStep(a[k], ps[k + 1])
    BY <1>1, <2>1
  <2>3. a[k] \in Runs /\ a[k].ran \in 0 .. k /\ (a[k].ok => a[k].ran = k)
        /\ Path(ps, a[k].ran, Contents(d), Contents(a[k].doc))
    BY <1>1, <1>4, <2>1
  <2>4. CASE ~a[k].ok
    <3>1. a[k + 1] = a[k]
      BY <2>2, <2>4 DEF RunStep
    <3> QED
      BY <2>1, <2>3, <2>4, <3>1
  <2>5. CASE a[k].ok
    <3> DEFINE e == a[k].doc  r == Run(ps[k + 1], e)
    <3>1. e \in Documents /\ a[k].ran = k /\ Part(ps[k + 1], x0)
      BY <2>1, <2>3, <2>5 DEF Runs
    <3>2. a[k + 1] = [ok |-> r.ok, doc |-> r.doc, ran |-> k + (IF r.ok THEN 1 ELSE 0)]
      BY <2>2, <2>5, <3>1 DEF RunStep
    <3>3. r.doc \in Documents /\ r.ok \in BOOLEAN /\ (~r.ok => r.doc = e)
          /\ (r.ok => Does(ps[k + 1], Contents(e), Contents(r.doc)))
      BY <3>1, PartRuns, SeenRun
    <3>4. Path(ps, k, Contents(d), Contents(e))
      BY <2>3, <3>1
    <3> HIDE DEF r, e
    <3>5. CASE r.ok
      <4>1. Path(ps, k + 1, Contents(d), Contents(r.doc))
        BY <2>1, <3>3, <3>4, <3>5, SeenTyped, PathExtends
      <4>2. a[k + 1].ran = k + 1 /\ a[k + 1].doc = r.doc
        BY <3>2, <3>5
      <4> QED
        BY <2>1, <4>1, <4>2
    <3>6. CASE ~r.ok
      <4>1. a[k + 1].ran = k /\ a[k + 1].doc = e /\ ~a[k + 1].ok
        BY <2>1, <3>2, <3>3, <3>6
      <4> QED
        BY <2>1, <3>4, <4>1
    <3> QED
      BY <3>5, <3>6
  <2> QED
    BY <2>4, <2>5
<1>5. Len(ps) \in Good
  <2> HIDE DEF Good
  <2>1. 0 .. Len(ps) \subseteq Good
    BY <1>2, <1>3, <1>4, Induct
  <2> QED
    BY <1>2, <2>1
<1>6. a[Len(ps)] \in Runs
  BY <1>1, <1>2
<1> QED
  BY <1>1, <1>5, <1>6

\* A group whose parts make a path takes it.
LEMMA RunFollows ==
    ASSUME NEW d \in Documents, NEW ps \in Seq(Simple), NEW x0, \A i \in 1 .. Len(ps) : Part(ps[i], x0),
           NEW y, Path(ps, Len(ps), Contents(d), y)
    PROVE  RunParts(ps, d).ok /\ Contents(RunParts(ps, d).doc) = y
<1>1. PICK a \in [0 .. Len(ps) -> Runs] :
          /\ a[0] = [ok |-> TRUE, doc |-> d, ran |-> 0] /\ RunParts(ps, d) = a[Len(ps)]
          /\ \A k \in 1 .. Len(ps) : a[k] = RunStep(a[k - 1], ps[k])
  BY RunSteps
<1>2. PICK f \in [0 .. Len(ps) -> Picture] :
          /\ f[0] = Contents(d) /\ f[Len(ps)] = y
          /\ \A i \in 1 .. Len(ps) : Does(ps[i], f[i - 1], f[i])
  BY DEF Path
<1>3. Len(ps) \in Nat
  BY LenProperties
<1> DEFINE Good == {k \in 0 .. Len(ps) : a[k].ok /\ Contents(a[k].doc) = f[k]}
<1>4. 0 \in Good
  BY <1>1, <1>2, <1>3
<1>5. ASSUME NEW k \in 0 .. Len(ps) - 1, k \in Good PROVE k + 1 \in Good
  <2>1. k + 1 \in 1 .. Len(ps) /\ k + 1 \in 0 .. Len(ps) /\ k \in 0 .. Len(ps) /\ (k + 1) - 1 = k
    BY <1>3
  <2>2. a[k + 1] = RunStep(a[k], ps[k + 1]) /\ Does(ps[k + 1], f[k], f[k + 1])
    BY <1>1, <1>2, <2>1
  <2>3. a[k].ok /\ Contents(a[k].doc) = f[k] /\ a[k].doc \in Documents /\ Part(ps[k + 1], x0)
    BY <1>1, <1>5, <2>1 DEF Runs
  <2> DEFINE r == Run(ps[k + 1], a[k].doc)
  <2>4. r.ok /\ Contents(r.doc) = f[k + 1]
    BY <2>2, <2>3, SeenRun
  <2>5. a[k + 1].ok = r.ok /\ a[k + 1].doc = r.doc
    BY <2>2, <2>3 DEF RunStep
  <2> QED
    BY <2>1, <2>4, <2>5
<1>6. Len(ps) \in Good
  <2> HIDE DEF Good
  <2>1. 0 .. Len(ps) \subseteq Good
    BY <1>3, <1>4, <1>5, Induct
  <2> QED
    BY <1>3, <2>1
<1> QED
  BY <1>1, <1>2, <1>6

\* What a group did, or its first parts, is taken back completely.
LEMMA BackFollows ==
    ASSUME NEW d \in Documents, NEW ps \in Seq(Simple), NEW x \in Picture,
           \A i \in 1 .. Len(ps) : Part(ps[i], x), Path(ps, Len(ps), x, Contents(d))
    PROVE  /\ TakeBackParts(ps, d).ok /\ TakeBackParts(ps, d).doc \in Documents
           /\ Contents(TakeBackParts(ps, d).doc) = x
<1> DEFINE s == Reverse(ps)  n == Len(ps)
<1>1. n \in Nat /\ Len(s) = n /\ \A k \in 1 .. n : s[k] = ps[(n - k) + 1]
  <2>1. n \in Nat /\ s = [i \in 1 .. n |-> ps[(n - i) + 1]]
    BY LenProperties DEF Reverse
  <2>2. \A i \in 1 .. n : (n - i) + 1 \in 1 .. n
    BY <2>1
  <2>3. \A i \in 1 .. n : ps[(n - i) + 1] \in Simple
    BY <2>2, ElementOfSeq
  <2> HIDE DEF s, n
  <2>4. s \in Seq(Simple) /\ Len(s) = n
    BY <2>1, <2>3, IsASeq, LenProperties, SameInterval
  <2> QED
    BY <2>1, <2>4
<1>2. PICK a \in [0 .. Len(s) -> Backs] :
          /\ a[0] = Outcome(TRUE, d) /\ TakeBackParts(ps, d) = a[Len(s)]
          /\ \A k \in 1 .. Len(s) : a[k] = BackStep(a[k - 1], s[k])
  BY BackSteps
<1>3. PICK f \in [0 .. n -> Picture] :
          /\ f[0] = x /\ f[n] = Contents(d)
          /\ \A i \in 1 .. n : Does(ps[i], f[i - 1], f[i])
  BY DEF Path
<1> HIDE DEF s, n
<1> DEFINE Good == {k \in 0 .. n : a[k].ok /\ Near(Contents(a[k].doc), f[n - k], x)}
<1>4. 0 \in Good
  <2>1. a[0].ok /\ a[0].doc = d /\ n - 0 = n
    <3>1. Outcome(TRUE, d).ok = TRUE /\ Outcome(TRUE, d).doc = d
      BY OutcomeFields
    <3>2. a[0].ok /\ a[0].doc = d
      BY <1>2, <3>1
    <3> QED
      BY <1>1, <3>2
  <2> QED
    BY <1>1, <1>3, <2>1 DEF Near
<1>5. ASSUME NEW k \in 0 .. n - 1, k \in Good PROVE k + 1 \in Good
  <2> DEFINE j == n - k  c == ps[j]
  <2>1. /\ k + 1 \in 1 .. n /\ k + 1 \in 0 .. n /\ k \in 0 .. n /\ (k + 1) - 1 = k
        /\ j \in 1 .. n /\ n - (k + 1) = j - 1 /\ (n - (k + 1)) + 1 = j
    BY <1>1
  <2>2. a[k + 1] = BackStep(a[k], c) /\ Does(c, f[j - 1], f[j]) /\ Part(c, x)
    <3>1. s[k + 1] = c
      BY ONLY <1>1, <2>1
    <3>2. a[k + 1] = BackStep(a[k], s[k + 1])
      <4>1. k + 1 \in 1 .. Len(s)
        BY ONLY <1>1, <2>1
      <4> HIDE DEF c, j
      <4> QED
        BY ONLY <1>2, <2>1, <4>1, Zenon
    <3>3. Does(c, f[j - 1], f[j])
      <4> HIDE DEF j
      <4> QED
        BY ONLY <1>3, <2>1
    <3>4. Part(c, x)
      BY <2>1 DEF n
    <3> HIDE DEF c, j
    <3> QED
      BY ONLY <3>1, <3>2, <3>3, <3>4, Zenon
  <2>3. a[k].ok /\ Near(Contents(a[k].doc), f[j], x) /\ a[k].doc \in Documents
    BY <1>1, <1>2, <1>5, <2>1 DEF Backs
  <2> HIDE DEF c, j
  <2>4. PICK e : BackOn(c, Contents(a[k].doc)) = Outcome(TRUE, e) /\ Near(e, f[j - 1], x)
    BY <2>2, <2>3, NearStep
  <2> DEFINE r == TakeBack(c, a[k].doc)
  <2>5. Outcome(r.ok, Contents(r.doc)) = Outcome(TRUE, e) /\ r.ok \in BOOLEAN
    <3>1. View(r) = BackOn(c, Contents(a[k].doc)) /\ r.ok \in BOOLEAN
      BY <2>2, <2>3, PartRuns, Zenon
    <3> HIDE DEF r
    <3> QED
      BY ONLY <2>4, <3>1, Zenon DEF View
  <2> HIDE DEF r
  <2>6. r.ok /\ Contents(r.doc) = e
    <3>1. r.ok
      BY <2>5, OutcomesDiffer
    <3> QED
      BY <2>5, <3>1 DEF Outcome
  <2>7. a[k + 1].ok /\ a[k + 1].doc = r.doc
    <3>1. a[k + 1] = Outcome(a[k].ok /\ r.ok, r.doc)
      BY <2>2 DEF BackStep, r
    <3>2. a[k + 1].ok = (a[k].ok /\ r.ok) /\ a[k + 1].doc = r.doc
      BY <3>1 DEF Outcome
    <3> QED
      BY <2>3, <2>6, <3>2
  <2> QED
    BY <2>1, <2>4, <2>6, <2>7
<1>6. n \in Good
  <2> HIDE DEF Good
  <2>1. 0 .. n \subseteq Good
    BY <1>1, <1>4, <1>5, Induct
  <2> QED
    BY <1>1, <2>1
<1>7. a[n].ok /\ a[n].doc \in Documents /\ Near(Contents(a[n].doc), x, x)
  <2>1. n - n = 0 /\ n \in 0 .. n
    BY <1>1
  <2> QED
    BY <1>1, <1>2, <1>3, <1>6, <2>1 DEF Backs
<1>8. Contents(a[n].doc) = x
  BY <1>7, SeenTyped, NearEnds
<1> QED
  BY <1>1, <1>2, <1>7, <1>8
-----------------------------------------------------------------------------
(* Commands and groups alike.                                              *)

LEMMA CommandTyped ==
    ASSUME NEW c \in Command
    PROVE  \/ c \in Simple /\ c.kind # "group"
           \/ c \in Group /\ c.kind = "group" /\ c.parts \in Seq(Simple) /\ Len(c.parts) \in Nat
<1>1. CASE c \in Simple
  BY <1>1, SimpleTyped
<1>2. CASE c \in Group
  <2>1. c.kind = "group" /\ c.parts \in Seq(Simple)
    BY <1>2 DEF Group
  <2> QED
    BY <1>2, <2>1, LenProperties
<1> QED
  BY <1>1, <1>2 DEF Command

\* The command was built from picture x and may be executed there.
ReadyOn(c, x) ==
    IF c.kind # "group" THEN BuiltOn(c, x) ELSE \A i \in 1 .. Len(c.parts) : Part(c.parts[i], x)

\* A command that succeeds leads from picture to picture, one that fails,
\* however far it got, leaves the picture as it was.
LEMMA ExecuteLeads ==
    ASSUME NEW d \in Documents, NEW c \in Command, ReadyOn(c, Contents(d))
    PROVE  /\ Execute(c, d).doc \in Documents /\ Execute(c, d).ok \in BOOLEAN
           /\ Execute(c, d).ok => Leads(c, Contents(d), Contents(Execute(c, d).doc))
           /\ ~Execute(c, d).ok => Contents(Execute(c, d).doc) = Contents(d)
<1>1. CASE c \in Simple /\ c.kind # "group"
  <2>1. Execute(c, d) = Run(c, d) /\ BuiltOn(c, Contents(d))
    BY <1>1 DEF Execute, ReadyOn
  <2>2. Run(c, d).doc \in Documents /\ Run(c, d).ok \in BOOLEAN /\ (~Run(c, d).ok => Run(c, d).doc = d)
        /\ View(Run(c, d)) = RunOn(c, Contents(d))
    BY <1>1, <2>1, RunView DEF BuiltOn
  <2>3. ASSUME Run(c, d).ok PROVE Does(c, Contents(d), Contents(Run(c, d).doc))
    <3>1. Run(c, d).ok = TRUE
      BY <2>2, <2>3
    <3> QED
      BY <2>2, <3>1 DEF View, Does
  <2> QED
    BY <1>1, <2>1, <2>2, <2>3 DEF Leads
<1>2. CASE c \in Group /\ c.kind = "group" /\ c.parts \in Seq(Simple) /\ Len(c.parts) \in Nat
  <2> DEFINE ps == c.parts  x == Contents(d)  r == RunParts(ps, d)
             first == SubSeq(ps, 1, r.ran)
  <2>1. ps \in Seq(Simple) /\ Len(ps) \in Nat /\ \A i \in 1 .. Len(ps) : Part(ps[i], x)
    BY <1>2 DEF ReadyOn
  <2>2. Execute(c, d) = IF r.ok THEN Outcome(TRUE, r.doc) ELSE Outcome(FALSE, RollBack(first, r.doc))
    BY <1>2 DEF Execute
  <2>3. /\ r \in Runs /\ r.ran \in 0 .. Len(ps) /\ (r.ok => r.ran = Len(ps))
        /\ Path(ps, r.ran, x, Contents(r.doc))
    BY <2>1, RunPath
  <2>l. c.kind = "group" /\ c.parts = ps
    BY <1>2
  <2> HIDE DEF ps, r
  <2>4. CASE r.ok
    <3>1. Execute(c, d) = Outcome(TRUE, r.doc)
      BY <2>2, <2>4
    <3>2. Execute(c, d).ok = TRUE /\ Execute(c, d).doc = r.doc
      BY <3>1 DEF Outcome
    <3>3. r.doc \in Documents
      BY <2>3 DEF Runs
    <3>4. Leads(c, x, Contents(r.doc))
      BY <2>l, <2>1, <2>3, <2>4 DEF Leads
    <3> QED
      BY <3>2, <3>3, <3>4
  <2>5. CASE ~r.ok
    <3>1. first \in Seq(Simple) /\ Len(first) = r.ran /\ \A i \in 1 .. r.ran : first[i] = ps[i]
      <4>1. \A i \in 1 .. r.ran : ps[i] \in Simple
        BY <2>1, <2>3, ElementOfSeq
      <4> QED
        BY <2>1, <2>3, <4>1, SubSeqProperties
    <3> HIDE DEF first
    <3>2. \A i \in 1 .. Len(first) : Part(first[i], x)
      BY <2>1, <2>3, <3>1
    <3>3. Path(first, Len(first), x, Contents(r.doc)) /\ r.doc \in Documents
      BY <2>3, <3>1 DEF Path, Runs
    <3>4. RollBack(first, r.doc) \in Documents /\ Contents(RollBack(first, r.doc)) = x
      BY <3>1, <3>2, <3>3, SeenTyped, BackFollows DEF RollBack
    <3>5. Execute(c, d) = Outcome(FALSE, RollBack(first, r.doc))
      BY <2>2, <2>5 DEF first
    <3>6. Execute(c, d).ok = FALSE /\ Execute(c, d).doc = RollBack(first, r.doc)
      BY <3>5 DEF Outcome
    <3> QED
      BY <3>4, <3>6
  <2> QED
    BY <2>4, <2>5
<1> QED
  BY <1>1, <1>2, CommandTyped

\* What a command did once it does again from the same picture.
LEMMA ExecuteAgain ==
    ASSUME NEW d \in Documents, NEW c \in Command, NEW y, Leads(c, Contents(d), y)
    PROVE  Execute(c, d).ok /\ Contents(Execute(c, d).doc) = y /\ Execute(c, d).doc \in Documents
<1>1. Execute(c, d).doc \in Documents /\ Execute(c, d).ok \in BOOLEAN
  BY ExecuteLeads DEF Leads, ReadyOn
<1>2. CASE c \in Simple /\ c.kind # "group"
  <2>1. Execute(c, d) = Run(c, d) /\ BuiltOn(c, Contents(d)) /\ Does(c, Contents(d), y)
    BY <1>2 DEF Execute, Leads
  <2>2. View(Run(c, d)) = RunOn(c, Contents(d)) /\ Run(c, d).ok \in BOOLEAN
    BY <1>2, <2>1, RunView DEF BuiltOn
  <2>3. Outcome(Run(c, d).ok, Contents(Run(c, d).doc)) = Outcome(TRUE, y)
    BY <2>1, <2>2 DEF View, Does
  <2>4. Run(c, d).ok = TRUE /\ Contents(Run(c, d).doc) = y
    BY <2>3 DEF Outcome
  <2> QED
    BY <1>1, <2>1, <2>4
<1>3. CASE c \in Group /\ c.kind = "group" /\ c.parts \in Seq(Simple) /\ Len(c.parts) \in Nat
  <2> DEFINE r == RunParts(c.parts, d)
  <2>1. r.ok /\ Contents(r.doc) = y
    BY <1>3, RunFollows DEF Leads
  <2>2. Execute(c, d) = Outcome(TRUE, r.doc)
    BY <1>3, <2>1 DEF Execute
  <2>3. Execute(c, d).ok = TRUE /\ Execute(c, d).doc = r.doc
    BY <2>2 DEF Outcome
  <2> QED
    BY <1>1, <2>1, <2>3
<1> QED
  BY <1>2, <1>3, CommandTyped

\* A simple command that is no rename is the way back too, and a rename has
\* none: its channel is no longer found.
LEMMA BackAgain ==
    ASSUME NEW x \in Picture, NEW d \in Documents, NEW c \in Simple, BuiltOn(c, x), Does(c, x, Contents(d))
    PROVE  /\ ~Renames(c) => TakeBack(c, d).ok /\ Contents(TakeBack(c, d).doc) = x
           /\ Renames(c) => ~TakeBack(c, d).ok
           /\ TakeBack(c, d).doc \in Documents /\ TakeBack(c, d).ok \in BOOLEAN
           /\ ~TakeBack(c, d).ok => TakeBack(c, d).doc = d
<1> DEFINE y == Contents(d)  r == TakeBack(c, d)
<1>1. /\ r.doc \in Documents /\ View(r) = BackOn(c, y) /\ r.ok \in BOOLEAN
      /\ ~r.ok => r.doc = d
  BY BackView DEF BuiltOn
<1>2. Contents(r.doc) \in Picture
  BY <1>1, SeenTyped
<1>3. ASSUME Renames(c) PROVE r.ok = FALSE
  <2>1. c.kind = "update" /\ c.new.name # c.name
    BY <1>3 DEF Renames
  <2>2. y = Painted(Without(x.channels, c.name) \cup {c.new}, x.setting)
    BY <2>1, DoesWhat
  <2>3. y.channels = Without(x.channels, c.name) \cup {c.new}
    BY <2>2, PaintedFields
  <2>4. c.name \notin NamesOf(y.channels)
    BY <2>1, <2>3 DEF NamesOf, Without
  <2>5. View(r) = Outcome(FALSE, y)
    BY <1>1, <2>1, <2>4, BackWhat
  <2> QED
    BY <2>5 DEF View, Outcome
<1>4. ASSUME ~Renames(c) PROVE r.ok = TRUE /\ Contents(r.doc) = x
  <2>1. CASE c.kind = "set"
    <3>1. y = Painted(x.channels, c.new.value) /\ c.old.value = x.setting
      <4>1. y = Painted(x.channels, c.new.value)
        BY <2>1, DoesWhat
      <4>2. c.old.value = x.setting
        BY <2>1 DEF BuiltOn
      <4> QED
        BY <4>1, <4>2
    <3>2. y.channels = x.channels
      BY <3>1, PaintedFields
    <3>3. View(r) = Outcome(TRUE, Painted(x.channels, x.setting))
      <4>1. View(r) = Outcome(TRUE, Painted(y.channels, c.old.value))
        BY <1>1, <2>1, BackWhat
      <4> QED
        BY <3>1, <3>2, <4>1
    <3>4. r.ok = TRUE /\ Contents(r.doc) = Painted(x.channels, x.setting)
      BY <3>3 DEF View, Outcome
    <3> QED
      BY <1>2, <3>4, PaintedFields, SamePicture
  <2>2. CASE c.kind # "set"
    <3>1. Part(c, x) /\ Near(y, y, x)
      BY <1>4, <2>2 DEF Part, Near
    <3>2. PICK e : BackOn(c, y) = Outcome(TRUE, e) /\ Near(e, x, x)
      BY <3>1, NearStep
    <3>3. r.ok = TRUE /\ Contents(r.doc) = e
      <4>1. View(r) = Outcome(TRUE, e)
        BY <1>1, <3>2
      <4> QED
        BY <4>1 DEF View, Outcome
    <3> QED
      BY <1>2, <3>2, <3>3, NearEnds
  <2> QED
    BY <2>1, <2>2
<1> QED
  BY <1>1, <1>3, <1>4

\* What can be undone is undone completely; only a merged update and a
\* rename cannot.
LEMMA UnexecuteLeads ==
    ASSUME NEW x \in Picture, NEW d \in Documents, NEW c \in Command, Leads(c, x, Contents(d)),
           Executed(c) \/ c.kind = "update"
    PROVE  /\ Unexecute(c, d).doc \in Documents /\ Unexecute(c, d).ok \in BOOLEAN
           /\ Unexecute(c, d).ok => Contents(Unexecute(c, d).doc) = x /\ Executed(c) /\ ~Renames(c)
           /\ ~Unexecute(c, d).ok => /\ Contents(Unexecute(c, d).doc) = Contents(d)
                                     /\ c.kind = "update" /\ (~c.done \/ Renames(c))
<1>1. CASE c \in Simple /\ c.kind # "group"
  <2>1. /\ Unexecute(c, d) = (IF c.done THEN TakeBack(c, d) ELSE Outcome(FALSE, d))
        /\ BuiltOn(c, x) /\ Does(c, x, Contents(d)) /\ (Executed(c) <=> c.done)
    BY <1>1 DEF Unexecute, Undone, Leads, Executed
  <2>2. CASE c.done
    <3>1. Unexecute(c, d) = TakeBack(c, d)
      BY <2>1, <2>2
    <3>2. Renames(c) => c.kind = "update"
      BY DEF Renames
    <3> QED
      BY <1>1, <2>1, <2>2, <3>1, <3>2, BackAgain
  <2>3. CASE ~c.done
    <3>1. Unexecute(c, d).ok = FALSE /\ Unexecute(c, d).doc = d
      BY <2>1, <2>3 DEF Outcome
    <3> QED
      BY <2>1, <2>3, <3>1
  <2> QED
    BY <2>2, <2>3
<1>2. CASE c \in Group /\ c.kind = "group" /\ c.parts \in Seq(Simple) /\ Len(c.parts) \in Nat
  <2> DEFINE ps == SubSeq(c.parts, 1, c.count)
  <2>1. Executed(c) /\ c.count = Len(c.parts) /\ ~Renames(c)
    BY <1>2 DEF Executed, Renames
  <2>2. ps = c.parts
    BY <1>2, <2>1, SubSeqFull
  <2>3. Unexecute(c, d) = TakeBackParts(c.parts, d)
    BY <1>2, <2>2 DEF Unexecute
  <2>4. (\A i \in 1 .. Len(c.parts) : Part(c.parts[i], x)) /\ Path(c.parts, Len(c.parts), x, Contents(d))
    BY <1>2 DEF Leads
  <2>5. TakeBackParts(c.parts, d).ok /\ TakeBackParts(c.parts, d).doc \in Documents
        /\ Contents(TakeBackParts(c.parts, d).doc) = x
    BY <1>2, <2>4, BackFollows
  <2>6. TakeBackParts(c.parts, d).ok \in BOOLEAN
    <3>1. PICK a \in [0 .. Len(Reverse(c.parts)) -> Backs] : TakeBackParts(c.parts, d) = a[Len(Reverse(c.parts))]
      BY <1>2, <2>4, BackSteps
    <3>2. Len(Reverse(c.parts)) \in Nat
      <4>1. Reverse(c.parts) \in Seq(Simple)
        <5>1. \A i \in 1 .. Len(c.parts) : (Len(c.parts) - i) + 1 \in 1 .. Len(c.parts)
          BY <1>2
        <5>2. \A i \in 1 .. Len(c.parts) : c.parts[(Len(c.parts) - i) + 1] \in Simple
          BY <1>2, <5>1, ElementOfSeq
        <5> QED
          BY <1>2, <5>2, IsASeq DEF Reverse
      <4> QED
        BY <4>1, LenProperties
    <3> QED
      BY <3>1, <3>2 DEF Backs
  <2> QED
    BY <2>1, <2>3, <2>5, <2>6
<1> QED
  BY <1>1, <1>2, CommandTyped
-----------------------------------------------------------------------------
(* The line of pictures.                                                   *)

\* All of a sequence but its last element.
LEMMA FrontProperties ==
    ASSUME NEW S, NEW s \in Seq(S), s # <<>>
    PROVE  /\ \A i \in 1 .. Len(s) - 1 : Front(s)[i] = s[i]
           /\ s = Append(Front(s), Last(s))
<1>1. Len(s) \in Nat /\ Len(s) # 0
  OBVIOUS
<1>2. \A i \in 1 .. Len(s) - 1 : Front(s)[i] = s[i]
  BY <1>1 DEF Front
<1>3. Front(s) \in Seq(S) /\ Len(Front(s)) = Len(s) - 1 /\ Last(s) \in S
  BY PopProperties
<1> DEFINE t == Append(Front(s), Last(s))
<1>4. t \in Seq(S) /\ Len(t) = Len(s) /\ \A i \in 1 .. Len(s) : t[i] = s[i]
  BY <1>1, <1>2, <1>3, AppendProperties DEF Last
<1> HIDE DEF t
<1>5. s = t
  BY <1>1, <1>4, SeqEqual
<1> QED
  BY <1>2, <1>5 DEF t

LEMMA EmptyLines == \A x : UndoLine(<<>>, <<>>, x) /\ RedoLine(<<>>, <<>>, x)
<1>1. Len(<<>>) = 0 /\ 1 .. 0 = {}
  OBVIOUS
<1> QED
  BY <1>1, EmptySeq DEF UndoLine, RedoLine

LEMMA PushUndo ==
    ASSUME NEW cs, NEW p, NEW now \in Picture, UndoLine(cs, p, now),
           NEW c \in Command, NEW new, Leads(c, now, new), Executed(c) \/ c.kind = "update"
    PROVE  UndoLine(Append(cs, c), Append(p, now), new)
<1> DEFINE n == Len(cs)  ds == Append(cs, c)  q == Append(p, now)
<1>1. n \in Nat /\ Len(p) = n /\ cs \in Seq(Command) /\ p \in Seq(Picture)
  BY LenProperties DEF UndoLine
<1>2. ds \in Seq(Command) /\ Len(ds) = n + 1 /\ ds[n + 1] = c /\ \A i \in 1 .. n : ds[i] = cs[i]
  BY <1>1, AppendProperties
<1>3. q \in Seq(Picture) /\ Len(q) = n + 1 /\ q[n + 1] = now /\ \A i \in 1 .. n : q[i] = p[i]
  BY <1>1, AppendProperties
<1> HIDE DEF ds, q
<1>4. ASSUME NEW i \in 1 .. n + 1
      PROVE  Leads(ds[i], q[i], NextOf(q, i, new)) /\ (Executed(ds[i]) \/ ds[i].kind = "update")
  <2>1. CASE i = n + 1
    <3>1. NextOf(q, i, new) = new
      BY <1>1, <1>3, <2>1 DEF NextOf
    <3> QED
      BY <1>2, <1>3, <2>1, <3>1
  <2>2. CASE i \in 1 .. n
    <3>1. NextOf(q, i, new) = NextOf(p, i, now)
      <4>1. CASE i = n
        BY <1>1, <1>3, <4>1 DEF NextOf
      <4>2. CASE i # n
        <5>1. i + 1 \in 1 .. n /\ i < n /\ i < n + 1
          BY <1>1, <2>2, <4>2
        <5> QED
          BY <1>1, <1>3, <5>1 DEF NextOf
      <4> QED
        BY <4>1, <4>2
    <3>2. Leads(cs[i], p[i], NextOf(p, i, now)) /\ (Executed(cs[i]) \/ cs[i].kind = "update")
      BY <2>2 DEF UndoLine
    <3> QED
      BY <1>2, <1>3, <2>2, <3>1, <3>2
  <2> QED
    BY <1>1, <2>1, <2>2
<1> QED
  BY <1>2, <1>3, <1>4 DEF UndoLine, ds, q

LEMMA PopUndo ==
    ASSUME NEW cs, NEW p, NEW now, UndoLine(cs, p, now), cs # <<>>
    PROVE  /\ UndoLine(Front(cs), Front(p), Last(p))
           /\ Leads(Last(cs), Last(p), now) /\ (Executed(Last(cs)) \/ Last(cs).kind = "update")
           /\ Last(cs) \in Command /\ Last(p) \in Picture /\ p # <<>> /\ p = Append(Front(p), Last(p))
<1> DEFINE n == Len(cs)  ds == Front(cs)  q == Front(p)
<1>1. n \in Nat /\ Len(p) = n /\ cs \in Seq(Command) /\ p \in Seq(Picture) /\ n # 0 /\ p # <<>>
  <2>1. n \in Nat /\ Len(p) = n /\ cs \in Seq(Command) /\ p \in Seq(Picture) /\ n # 0
    BY LenProperties, EmptySeq DEF UndoLine
  <2> QED
    BY <2>1, EmptySeq
<1>2. ds \in Seq(Command) /\ Len(ds) = n - 1 /\ Last(cs) \in Command /\ Last(cs) = cs[n]
      /\ \A i \in 1 .. n - 1 : ds[i] = cs[i]
  BY <1>1, FrontProperties, PopProperties DEF Last
<1>3. q \in Seq(Picture) /\ Len(q) = n - 1 /\ Last(p) \in Picture /\ Last(p) = p[n]
      /\ \A i \in 1 .. n - 1 : q[i] = p[i]
  BY <1>1, FrontProperties, PopProperties DEF Last
<1>7. p = Append(q, Last(p))
  BY <1>1, FrontProperties
<1> HIDE DEF ds, q, n
<1>4. ASSUME NEW i \in 1 .. n - 1
      PROVE  Leads(ds[i], q[i], NextOf(q, i, Last(p))) /\ (Executed(ds[i]) \/ ds[i].kind = "update")
  <2>1. NextOf(q, i, Last(p)) = NextOf(p, i, now)
    <3>1. CASE i = n - 1
      BY <1>1, <1>3, <3>1 DEF NextOf
    <3>2. CASE i # n - 1
      <4>1. i + 1 \in 1 .. n - 1 /\ i < n /\ i < n - 1
        BY <1>1, <3>2
      <4> QED
        BY <1>1, <1>3, <4>1 DEF NextOf
    <3> QED
      BY <3>1, <3>2
  <2>2. i \in 1 .. n
    BY <1>1
  <2>3. Leads(cs[i], p[i], NextOf(p, i, now)) /\ (Executed(cs[i]) \/ cs[i].kind = "update")
    BY <2>2 DEF UndoLine, n
  <2> QED
    BY <1>2, <1>3, <2>1, <2>3
<1>5. n \in 1 .. n /\ NextOf(p, n, now) = now
  BY <1>1 DEF NextOf
<1>6. Leads(cs[n], p[n], now) /\ (Executed(cs[n]) \/ cs[n].kind = "update")
  <2>1. Leads(cs[n], p[n], NextOf(p, n, now)) /\ (Executed(cs[n]) \/ cs[n].kind = "update")
    BY <1>5 DEF UndoLine, n
  <2> QED
    BY <1>5, <2>1
<1>8. UndoLine(ds, q, Last(p))
  BY <1>2, <1>3, <1>4 DEF UndoLine
<1> QED
  BY <1>1, <1>2, <1>3, <1>6, <1>7, <1>8 DEF ds, q

LEMMA LimitUndo ==
    ASSUME NEW cs, NEW p, NEW now, UndoLine(cs, p, now)
    PROVE  UndoLine(Limited(cs), Limited(p), now)
<1> DEFINE n == Len(cs)  m == MaxStackSize  k == n - m
<1>1. n \in Nat /\ Len(p) = n /\ cs \in Seq(Command) /\ p \in Seq(Picture) /\ m \in Nat /\ m # 0
  BY LenProperties, UndoAssumption DEF UndoLine
<1>2. CASE ~(n > m)
  BY <1>1, <1>2 DEF Limited
<1>3. CASE n > m
  <2> DEFINE ds == SubSeq(cs, k + 1, n)  q == SubSeq(p, k + 1, n)
  <2>1. Limited(cs) = ds /\ Limited(p) = q
    BY <1>1, <1>3 DEF Limited
  <2>2. k + 1 \in 1 .. n /\ k \in Nat /\ n - k = m /\ \A i \in k + 1 .. n : i \in 1 .. n
    BY <1>1, <1>3
  <2>3. ds \in Seq(Command) /\ Len(ds) = m /\ \A i \in 1 .. m : ds[i] = cs[k + i]
    <3>1. \A i \in k + 1 .. n : cs[i] \in Command
      BY <1>1, <2>2, ElementOfSeq
    <3> HIDE DEF k
    <3>2. ds \in Seq(Command) /\ Len(ds) = n - (k + 1) + 1 /\ \A i \in 1 .. n - (k + 1) + 1 : ds[i] = cs[(k + 1) + i - 1]
      BY <1>1, <2>2, <3>1, SubSeqProperties
    <3>3. n - (k + 1) + 1 = m /\ \A i \in 1 .. m : (k + 1) + i - 1 = k + i
      BY <1>1, <2>2
    <3> QED
      BY <3>2, <3>3
  <2>4. q \in Seq(Picture) /\ Len(q) = m /\ \A i \in 1 .. m : q[i] = p[k + i]
    <3>1. \A i \in k + 1 .. n : p[i] \in Picture
      BY <1>1, <2>2, ElementOfSeq
    <3> HIDE DEF k
    <3>2. q \in Seq(Picture) /\ Len(q) = n - (k + 1) + 1 /\ \A i \in 1 .. n - (k + 1) + 1 : q[i] = p[(k + 1) + i - 1]
      BY <1>1, <2>2, <3>1, SubSeqProperties
    <3>3. n - (k + 1) + 1 = m /\ \A i \in 1 .. m : (k + 1) + i - 1 = k + i
      BY <1>1, <2>2
    <3> QED
      BY <3>2, <3>3
  <2> HIDE DEF ds, q, k
  <2>5. ASSUME NEW i \in 1 .. m
        PROVE  Leads(ds[i], q[i], NextOf(q, i, now)) /\ (Executed(ds[i]) \/ ds[i].kind = "update")
    <3>1. k + i \in 1 .. n
      BY <1>1, <2>2
    <3>2. NextOf(q, i, now) = NextOf(p, k + i, now)
      <4>1. CASE i = m
        <5>1. ~(i < m) /\ ~(k + i < n)
          BY <1>1, <2>2, <4>1
        <5> QED
          BY <1>1, <2>4, <5>1 DEF NextOf
      <4>2. CASE i # m
        <5>1. i < m /\ i + 1 \in 1 .. m /\ k + i < n /\ k + (i + 1) = (k + i) + 1
          BY <1>1, <2>2, <4>2
        <5>2. q[i + 1] = p[(k + i) + 1]
          BY <2>4, <5>1
        <5> QED
          BY <1>1, <2>4, <5>1, <5>2 DEF NextOf
      <4> QED
        BY <4>1, <4>2
    <3>3. Leads(cs[k + i], p[k + i], NextOf(p, k + i, now)) /\ (Executed(cs[k + i]) \/ cs[k + i].kind = "update")
      BY <3>1 DEF UndoLine, n
    <3> QED
      BY <2>3, <2>4, <3>2, <3>3
  <2> QED
    BY <2>1, <2>3, <2>4, <2>5 DEF UndoLine
<1> QED
  BY <1>2, <1>3

LEMMA PushRedo ==
    ASSUME NEW cs, NEW f, NEW now \in Picture, RedoLine(cs, f, now),
           NEW c \in Command, NEW new, Leads(c, new, now), Executed(c), ~Renames(c)
    PROVE  RedoLine(Append(cs, c), Append(f, now), new)
<1> DEFINE n == Len(cs)  ds == Append(cs, c)  q == Append(f, now)
<1>1. n \in Nat /\ Len(f) = n /\ cs \in Seq(Command) /\ f \in Seq(Picture)
  BY LenProperties DEF RedoLine
<1>2. ds \in Seq(Command) /\ Len(ds) = n + 1 /\ ds[n + 1] = c /\ \A i \in 1 .. n : ds[i] = cs[i]
  BY <1>1, AppendProperties
<1>3. q \in Seq(Picture) /\ Len(q) = n + 1 /\ q[n + 1] = now /\ \A i \in 1 .. n : q[i] = f[i]
  BY <1>1, AppendProperties
<1> HIDE DEF ds, q
<1>4. ASSUME NEW i \in 1 .. n + 1
      PROVE  Leads(ds[i], NextOf(q, i, new), q[i]) /\ Executed(ds[i]) /\ ~Renames(ds[i])
  <2>1. CASE i = n + 1
    <3>1. NextOf(q, i, new) = new
      BY <1>1, <1>3, <2>1 DEF NextOf
    <3> QED
      BY <1>2, <1>3, <2>1, <3>1
  <2>2. CASE i \in 1 .. n
    <3>1. NextOf(q, i, new) = NextOf(f, i, now)
      <4>1. CASE i = n
        BY <1>1, <1>3, <4>1 DEF NextOf
      <4>2. CASE i # n
        <5>1. i + 1 \in 1 .. n /\ i < n /\ i < n + 1
          BY <1>1, <2>2, <4>2
        <5> QED
          BY <1>1, <1>3, <5>1 DEF NextOf
      <4> QED
        BY <4>1, <4>2
    <3>2. Leads(cs[i], NextOf(f, i, now), f[i]) /\ Executed(cs[i]) /\ ~Renames(cs[i])
      BY <2>2 DEF RedoLine
    <3> QED
      BY <1>2, <1>3, <2>2, <3>1, <3>2
  <2> QED
    BY <1>1, <2>1, <2>2
<1> QED
  BY <1>2, <1>3, <1>4 DEF RedoLine, ds, q

LEMMA PopRedo ==
    ASSUME NEW cs, NEW f, NEW now, RedoLine(cs, f, now), cs # <<>>
    PROVE  /\ RedoLine(Front(cs), Front(f), Last(f))
           /\ Leads(Last(cs), now, Last(f)) /\ Executed(Last(cs)) /\ ~Renames(Last(cs))
           /\ Last(cs) \in Command /\ Last(f) \in Picture /\ f # <<>>
<1> DEFINE n == Len(cs)  ds == Front(cs)  q == Front(f)
<1>1. n \in Nat /\ Len(f) = n /\ cs \in Seq(Command) /\ f \in Seq(Picture) /\ n # 0 /\ f # <<>>
  <2>1. n \in Nat /\ Len(f) = n /\ cs \in Seq(Command) /\ f \in Seq(Picture) /\ n # 0
    BY LenProperties, EmptySeq DEF RedoLine
  <2> QED
    BY <2>1, EmptySeq
<1>2. ds \in Seq(Command) /\ Len(ds) = n - 1 /\ Last(cs) \in Command /\ Last(cs) = cs[n]
      /\ \A i \in 1 .. n - 1 : ds[i] = cs[i]
  BY <1>1, FrontProperties, PopProperties DEF Last
<1>3. q \in Seq(Picture) /\ Len(q) = n - 1 /\ Last(f) \in Picture /\ Last(f) = f[n]
      /\ \A i \in 1 .. n - 1 : q[i] = f[i]
  BY <1>1, FrontProperties, PopProperties DEF Last
<1> HIDE DEF ds, q, n
<1>4. ASSUME NEW i \in 1 .. n - 1
      PROVE  Leads(ds[i], NextOf(q, i, Last(f)), q[i]) /\ Executed(ds[i]) /\ ~Renames(ds[i])
  <2>1. NextOf(q, i, Last(f)) = NextOf(f, i, now)
    <3>1. CASE i = n - 1
      BY <1>1, <1>3, <3>1 DEF NextOf
    <3>2. CASE i # n - 1
      <4>1. i + 1 \in 1 .. n - 1 /\ i < n /\ i < n - 1
        BY <1>1, <3>2
      <4> QED
        BY <1>1, <1>3, <4>1 DEF NextOf
    <3> QED
      BY <3>1, <3>2
  <2>2. i \in 1 .. n
    BY <1>1
  <2>3. Leads(cs[i], NextOf(f, i, now), f[i]) /\ Executed(cs[i]) /\ ~Renames(cs[i])
    BY <2>2 DEF RedoLine, n
  <2> QED
    BY <1>2, <1>3, <2>1, <2>3
<1>5. n \in 1 .. n /\ NextOf(f, n, now) = now
  BY <1>1 DEF NextOf
<1>6. Leads(cs[n], now, f[n]) /\ Executed(cs[n]) /\ ~Renames(cs[n])
  <2>1. Leads(cs[n], NextOf(f, n, now), f[n]) /\ Executed(cs[n]) /\ ~Renames(cs[n])
    BY <1>5 DEF RedoLine, n
  <2> QED
    BY <1>5, <2>1
<1>8. RedoLine(ds, q, Last(f))
  BY <1>2, <1>3, <1>4 DEF RedoLine
<1> QED
  BY <1>1, <1>2, <1>3, <1>6, <1>8 DEF ds, q
-----------------------------------------------------------------------------
(* The steps of the manager.                                               *)

AbstractNext == History!Edit \/ History!Amend \/ History!Undo \/ History!Redo \/ History!Forget

\* The commands that the editor builds are built on the document's picture.
LEMMA BuiltReady ==
    ASSUME doc \in Documents
    PROVE  /\ \A c \in Singles : c \in Command /\ ReadyOn(c, Contents(doc)) /\ BuiltOn(c, Contents(doc))
           /\ \A c \in Groups : c \in Command /\ ReadyOn(c, Contents(doc)) /\ c.kind = "group"
<1>1. ASSUME NEW c \in Singles PROVE c \in Command /\ BuiltOn(c, Contents(doc)) /\ c.kind # "group"
  <2>1. c \in Simple /\ Built(c, doc)
    BY DEF Singles
  <2>2. Contents(doc).channels = ToSet(doc.channels) /\ Contents(doc).setting = doc.setting
    BY DEF Contents
  <2>3. IndexOf(doc, c.new.name) = 0 => c.new.name \notin NamesOf(Contents(doc).channels)
    BY IndexOfName
  <2>4. BuiltOn(c, Contents(doc))
    BY <2>1, <2>2, <2>3 DEF Built, BuiltOn
  <2> QED
    BY <2>1, <2>4, SimpleTyped DEF Command
<1>2. ASSUME NEW c \in Groups PROVE c \in Command /\ ReadyOn(c, Contents(doc)) /\ c.kind = "group"
  <2> DEFINE parts == {e \in Singles : ~Renames(e) /\ e.kind # "set"}
  <2>1. PICK n \in 2 .. MaxGroup : \E p \in [1 .. n -> parts] : c = [kind |-> "group", parts |-> p, count |-> 0]
    BY DEF Groups
  <2>2. PICK p \in [1 .. n -> parts] : c = [kind |-> "group", parts |-> p, count |-> 0]
    BY <2>1
  <2>3. ASSUME NEW e \in parts PROVE Part(e, Contents(doc)) /\ e \in Simple
    BY <1>1 DEF Part, BuiltOn
  <2> HIDE DEF parts
  <2>4. n \in Nat /\ p \in [1 .. n -> Simple]
    BY <2>3, UndoAssumption
  <2>5. p \in Seq(Simple) /\ Len(p) = n
    BY <2>4, IsASeq, LenProperties, SameInterval
  <2>6. c.kind = "group" /\ c.parts = p
    BY <2>2
  <2>7. \A i \in 1 .. Len(c.parts) : Part(c.parts[i], Contents(doc))
    BY <2>3, <2>5, <2>6
  <2> QED
    BY <2>6, <2>7, BuiltAreCommands DEF ReadyOn
<1> QED
  BY <1>1, <1>2 DEF ReadyOn

\* A command that is marked does what it did.
LEMMA MarkedLeads ==
    ASSUME NEW c \in Command, NEW x, NEW y, Leads(c, x, y)
    PROVE  /\ Leads(Marked(c, TRUE), x, y) /\ Executed(Marked(c, TRUE)) /\ Marked(c, TRUE) \in Command
<1>0. Marked(c, TRUE) \in Command
  BY MarkedIsCommand
<1>1. CASE c \in Simple /\ c.kind # "group"
  <2> DEFINE e == [c EXCEPT !.done = TRUE]
  <2>1. Marked(c, TRUE) = e
    BY <1>1 DEF Marked
  <2>2. e.kind = c.kind /\ e.name = c.name /\ e.old = c.old /\ e.new = c.new /\ e.done = TRUE /\ e \in Simple
    BY <1>1 DEF Simple
  <2> HIDE DEF e
  <2>3. BuiltOn(c, x) /\ Does(c, x, y)
    BY <1>1 DEF Leads
  <2>4. BuiltOn(e, x)
    BY <2>2, <2>3 DEF BuiltOn
  <2>5. Does(e, x, y)
    BY <2>2, <2>3 DEF Does, RunOn
  <2> QED
    BY <1>0, <1>1, <2>1, <2>2, <2>4, <2>5 DEF Leads, Executed
<1>2. CASE c \in Group /\ c.kind = "group" /\ c.parts \in Seq(Simple) /\ Len(c.parts) \in Nat
  <2> DEFINE e == [c EXCEPT !.count = Len(c.parts)]
  <2>1. Marked(c, TRUE) = e
    BY <1>2 DEF Marked
  <2>2. e.kind = "group" /\ e.parts = c.parts /\ e.count = Len(c.parts)
    BY <1>2 DEF Group
  <2> HIDE DEF e
  <2> QED
    BY <1>0, <1>2, <2>1, <2>2 DEF Leads, Executed
<1> QED
  BY <1>1, <1>2, CommandTyped

LEMMA MarkedRenames ==
    ASSUME NEW c \in Command, NEW ok \in BOOLEAN PROVE Renames(Marked(c, ok)) <=> Renames(c)
<1>1. CASE c \in Simple /\ c.kind # "group"
  BY <1>1 DEF Marked, Renames, Simple
<1>2. CASE c \in Group /\ c.kind = "group"
  BY <1>2 DEF Marked, Renames, Group
<1> QED
  BY <1>1, <1>2, CommandTyped

\* An update that joins the last one makes one update of the two.
LEMMA MergedLeads ==
    ASSUME NEW u \in Command, NEW c, NEW x, NEW y, NEW z, CanMerge(u, c),
           Leads(u, x, y), BuiltOn(c, y), Does(c, y, z)
    PROVE  Leads(Merge(u, c), x, z) /\ Merge(u, c) \in Command /\ Merge(u, c).kind = "update"
<1>1. u.kind = "update" /\ c.kind = "update" /\ c.name = u.name /\ u \in Simple /\ c \in Simple
  BY CommandTyped DEF CanMerge, BuiltOn
<1>2. BuiltOn(u, x) /\ Does(u, x, y)
  BY <1>1 DEF Leads
<1>3. /\ u.name \in NamesOf(x.channels)
      /\ y.channels = Without(x.channels, u.name) \cup {u.new} /\ y.setting = x.setting
  <2>1. u.name \in NamesOf(x.channels) /\ y = Painted(Without(x.channels, u.name) \cup {u.new}, x.setting)
    BY <1>1, <1>2, DoesWhat
  <2> QED
    BY <2>1, PaintedFields
<1>4. c.name \in NamesOf(y.channels) /\ z = Painted(Without(y.channels, c.name) \cup {c.new}, y.setting)
  BY <1>1, DoesWhat
<1>5. u.new.name = u.name
  BY <1>1, <1>3, <1>4 DEF NamesOf, Without
<1>6. Without(y.channels, c.name) = Without(x.channels, u.name)
  BY <1>1, <1>3, <1>5 DEF Without
<1>7. z = Painted(Without(x.channels, u.name) \cup {c.new}, x.setting)
  BY <1>3, <1>4, <1>6
<1> DEFINE e == Merge(u, c)
<1>8. /\ e \in Simple /\ e.kind = "update" /\ e.name = u.name /\ e.old = u.old /\ e.new = c.new
  BY <1>1 DEF Merge, Simple
<1> HIDE DEF e
<1>9. BuiltOn(e, x)
  <2>1. u.old \in x.channels /\ u.old.name = u.name
    BY <1>1, <1>2 DEF BuiltOn
  <2>2. c.new.name = c.name \/ c.new.name \notin NamesOf(y.channels)
    BY <1>1 DEF BuiltOn
  <2>3. NamesOf(x.channels) \subseteq NamesOf(y.channels)
    BY <1>3, <1>5 DEF NamesOf, Without
  <2> QED
    BY <1>1, <1>8, <2>1, <2>2, <2>3 DEF BuiltOn
<1>10. RunOn(e, x) = UpdateIn(x, e.name, e.new)
  BY <1>8 DEF RunOn
<1>11. Does(e, x, z)
  BY <1>3, <1>7, <1>8, <1>10 DEF Does, UpdateIn
<1> QED
  BY <1>8, <1>9, <1>11, SimpleTyped DEF Leads, Command, e

LEMMA HistoryBegins == Init => HInv /\ History!HistoryInit
<1> SUFFICES ASSUME Init PROVE HInv /\ History!HistoryInit
  OBVIOUS
<1>1. UInv
  BY UndoInit
<1>2. doc \in [channels : {<<>>}, setting : Values]
  BY DEF Init
<1>3. doc \in Documents
  <2>1. doc.channels = <<>> /\ doc \in [channels : Seq(Channels), setting : Values]
    BY <1>2, EmptySeq
  <2>2. DOMAIN doc.channels = {}
    BY <2>1
  <2> QED
    BY <2>1, <2>2 DEF Documents
<1>4. OnlyMergedStick
  BY DEF Init, OnlyMergedStick, Sticking
<1> QED
  BY <1>1, <1>3, <1>4, EmptyLines DEF Init, HInv, History!HistoryInit

\* The newest elements are a suffix.
LEMMA LimitedIsSuffix ==
    ASSUME NEW S, NEW s \in Seq(S), s # <<>>
    PROVE  Limited(s) \in Suffixes(s) \ {<<>>}
<1>1. Len(s) \in Nat /\ Len(s) # 0 /\ MaxStackSize \in Nat /\ MaxStackSize # 0
  BY LenProperties, EmptySeq, UndoAssumption
<1>2. Limited(s) \in Seq(S) /\ Len(Limited(s)) # 0
  BY <1>1, LimitedProperties
<1>3. CASE Len(s) > MaxStackSize
  <2>1. Len(s) - MaxStackSize + 1 \in 1 .. Len(s)
    BY <1>1, <1>3
  <2>2. Limited(s) = SubSeq(s, Len(s) - MaxStackSize + 1, Len(s))
    BY <1>3 DEF Limited
  <2>3. Limited(s) \in Suffixes(s)
    BY <2>1, <2>2 DEF Suffixes
  <2> QED
    BY <1>2, <2>3, EmptySeq
<1>4. CASE ~(Len(s) > MaxStackSize)
  <2>1. Limited(s) = s /\ s = SubSeq(s, 1, Len(s)) /\ 1 \in 1 .. Len(s)
    BY <1>1, <1>4, SubSeqFull DEF Limited
  <2>2. Limited(s) \in Suffixes(s)
    BY <2>1 DEF Suffixes
  <2> QED
    BY <2>1, <2>2
<1> QED
  BY <1>3, <1>4

LEMMA RefusedSteps ==
    ASSUME HInv, UInv', NEW c \in Command, ReadyOn(c, Contents(doc)), Refused(c)
    PROVE  HInv' /\ UNCHANGED History!historyVars
<1>1. /\ ~Execute(c, doc).ok /\ doc' = Execute(c, doc).doc /\ returned' = [call |-> "execute", ok |-> FALSE]
      /\ UNCHANGED <<undoStack, redoStack, past, future>>
  BY DEF Refused, Answer
<1>2. doc' \in Documents /\ Contents(doc') = Contents(doc)
  BY <1>1, ExecuteLeads DEF HInv
<1>3. OnlyMergedStick'
  BY <1>1 DEF OnlyMergedStick, Sticking
<1> QED
  BY <1>1, <1>2, <1>3 DEF HInv, History!historyVars

LEMMA JoinSteps ==
    ASSUME HInv, UInv', NEW c \in Singles, Joins(c)
    PROVE  HInv' /\ History!Amend
<1>0. doc \in Documents /\ c \in Command /\ BuiltOn(c, Contents(doc)) /\ ReadyOn(c, Contents(doc))
  BY BuiltReady DEF HInv
<1> DEFINE u == Last(undoStack)  x == Last(past)
<1>1. /\ undoStack # <<>> /\ CanMerge(u, c) /\ Execute(c, doc).ok /\ doc' = Execute(c, doc).doc
      /\ undoStack' = Append(Front(undoStack), Merge(u, c)) /\ past' = past
      /\ redoStack' = <<>> /\ future' = <<>> /\ returned' = [call |-> "execute", ok |-> TRUE]
  BY DEF Joins, Merges, DropRedo, Answer
<1>2. Leads(c, Contents(doc), Contents(doc')) /\ doc' \in Documents
  BY <1>0, <1>1, ExecuteLeads
<1>3. /\ UndoLine(Front(undoStack), Front(past), x) /\ Leads(u, x, Contents(doc))
      /\ u \in Command /\ x \in Picture /\ past # <<>> /\ past = Append(Front(past), x)
  BY <1>1, PopUndo DEF HInv
<1>4. Does(c, Contents(doc), Contents(doc'))
  <2>1. c.kind # "group"
    BY <1>0, SimpleTyped DEF BuiltOn
  <2> QED
    BY <1>2, <2>1 DEF Leads
<1> DEFINE e == Merge(u, c)
<1>5. Leads(e, x, Contents(doc')) /\ e \in Command /\ e.kind = "update"
  BY <1>0, <1>1, <1>3, <1>4, MergedLeads
<1> HIDE DEF u, x
<1>6. UndoLine(Append(Front(undoStack), e), Append(Front(past), x), Contents(doc'))
  <2> HIDE DEF e
  <2> QED
    BY <1>3, <1>5, PushUndo
<1>7. UndoLine(undoStack, past, Contents(doc))'
  BY <1>1, <1>3, <1>6
<1>8. RedoLine(redoStack, future, Contents(doc))'
  BY <1>1, EmptyLines
<1>9. OnlyMergedStick'
  BY <1>1 DEF OnlyMergedStick, Sticking
<1>10. History!Amend
  BY <1>1, <1>3 DEF History!Amend
<1> QED
  BY <1>2, <1>7, <1>8, <1>9, <1>10 DEF HInv

LEMMA PushSteps ==
    ASSUME HInv, UInv', NEW c \in Command, ReadyOn(c, Contents(doc)), NEW soon, Pushes(c, soon)
    PROVE  HInv' /\ History!Edit
<1> DEFINE m == Marked(c, TRUE)  now == Contents(doc)
<1>0. doc \in Documents /\ now \in Picture /\ past \in Seq(Picture)
  BY SeenTyped DEF HInv, UndoLine
<1>1. /\ Execute(c, doc).ok /\ doc' = Execute(c, doc).doc
      /\ undoStack' = Limited(Append(undoStack, m)) /\ past' = Limited(Append(past, now))
      /\ redoStack' = <<>> /\ future' = <<>> /\ returned' = [call |-> "execute", ok |-> TRUE]
  BY DEF Pushes, DropRedo, Answer
<1>2. Leads(c, now, Contents(doc')) /\ doc' \in Documents
  BY <1>0, <1>1, ExecuteLeads
<1>3. Leads(m, now, Contents(doc')) /\ Executed(m) /\ m \in Command
  BY <1>2, MarkedLeads
<1> HIDE DEF m, now
<1>4. UndoLine(Append(undoStack, m), Append(past, now), Contents(doc'))
  <2>1. UndoLine(undoStack, past, now)
    BY DEF HInv, now
  <2> QED
    BY <1>0, <1>3, <2>1, PushUndo
<1>5. UndoLine(undoStack, past, Contents(doc))'
  <2>1. UndoLine(undoStack', past', Contents(doc'))
    BY <1>1, <1>4, LimitUndo
  <2> QED
    BY <2>1
<1>6. RedoLine(redoStack, future, Contents(doc))'
  BY <1>1, EmptyLines
<1>7. OnlyMergedStick'
  BY <1>1 DEF OnlyMergedStick, Sticking
<1>8. Append(past, now) \in Seq(Picture) /\ Append(past, now) # <<>>
  BY <1>0, AppendProperties
<1>9. past' \in Suffixes(Append(past, now)) \ {<<>>}
  BY <1>1, <1>8, LimitedIsSuffix
<1>10. History!Edit
  BY <1>1, <1>9 DEF History!Edit, History!Suffixes, Suffixes, now
<1> QED
  BY <1>2, <1>5, <1>6, <1>7, <1>10 DEF HInv

LEMMA UndoSteps ==
    ASSUME HInv, UInv', Undo
    PROVE  HInv' /\ (History!Undo \/ UNCHANGED History!historyVars)
<1> DEFINE c == Last(undoStack)  r == Unexecute(c, doc)  x == Last(past)  now == Contents(doc)
<1>1. undoStack # <<>> /\ doc' = r.doc /\ returned' = [call |-> "undo", ok |-> r.ok]
  BY DEF Undo, Answer
<1>2. /\ doc \in Documents /\ now \in Picture
      /\ UndoLine(Front(undoStack), Front(past), x)
      /\ Leads(c, x, now) /\ (Executed(c) \/ c.kind = "update")
      /\ c \in Command /\ x \in Picture /\ past # <<>>
  BY <1>1, SeenTyped, PopUndo DEF HInv
<1>3. /\ r.doc \in Documents /\ r.ok \in BOOLEAN
      /\ r.ok => Contents(r.doc) = x /\ Executed(c) /\ ~Renames(c)
      /\ ~r.ok => Contents(r.doc) = now /\ c.kind = "update" /\ (~c.done \/ Renames(c))
  BY <1>2, UnexecuteLeads
<1>4. CASE r.ok
  <2>1. /\ undoStack' = Front(undoStack) /\ redoStack' = Append(redoStack, c)
        /\ past' = Front(past) /\ future' = Append(future, now)
    BY <1>4 DEF Undo
  <2>2. Contents(doc') = x /\ doc' \in Documents /\ Executed(c) /\ ~Renames(c)
    BY <1>1, <1>3, <1>4
  <2>3. OnlyMergedStick'
    BY <1>1, <1>4 DEF OnlyMergedStick, Sticking
  <2>4. RedoLine(redoStack, future, now)
    BY DEF HInv
  <2>5. History!Undo
    BY <1>2, <2>1, <2>2 DEF History!Undo, History!Last, History!Front, Last, Front
  <2> HIDE DEF c, r, x, now
  <2>6. RedoLine(Append(redoStack, c), Append(future, now), x)
    BY <1>2, <2>2, <2>4, PushRedo
  <2>7. UndoLine(undoStack, past, Contents(doc))' /\ RedoLine(redoStack, future, Contents(doc))'
    BY <1>2, <2>1, <2>2, <2>6
  <2> QED
    BY <2>2, <2>3, <2>5, <2>7 DEF HInv
<1>5. CASE ~r.ok
  <2>1. UNCHANGED <<undoStack, redoStack, past, future>>
    BY <1>5 DEF Undo
  <2>2. Contents(doc') = now /\ doc' \in Documents /\ c.kind = "update" /\ (~c.done \/ Renames(c))
    BY <1>1, <1>3, <1>5
  <2>3. OnlyMergedStick'
    <3>1. Last(undoStack') = c /\ returned'.call = "undo"
      BY <1>1, <2>1
    <3> QED
      BY <2>2, <3>1 DEF OnlyMergedStick, Sticking
  <2> QED
    BY <2>1, <2>2, <2>3 DEF HInv, History!historyVars
<1> QED
  BY <1>4, <1>5

LEMMA RedoSteps ==
    ASSUME HInv, UInv', Redo
    PROVE  HInv' /\ History!Redo
<1> DEFINE c == Last(redoStack)  r == Execute(c, doc)  y == Last(future)  now == Contents(doc)
           m == Marked(c, TRUE)
<1>1. redoStack # <<>> /\ doc' = r.doc /\ returned' = [call |-> "redo", ok |-> r.ok]
  BY DEF Redo, Answer
<1>2. /\ doc \in Documents /\ now \in Picture /\ RedoLine(Front(redoStack), Front(future), y)
      /\ Leads(c, now, y) /\ c \in Command /\ y \in Picture /\ future # <<>>
  BY <1>1, SeenTyped, PopRedo DEF HInv
<1>3. r.ok /\ Contents(r.doc) = y /\ r.doc \in Documents
  BY <1>2, ExecuteAgain
<1>4. /\ redoStack' = Front(redoStack) /\ undoStack' = Append(undoStack, m)
      /\ future' = Front(future) /\ past' = Append(past, now)
  BY <1>3 DEF Redo
<1>5. Leads(m, now, y) /\ Executed(m) /\ m \in Command
  BY <1>2, MarkedLeads
<1>6. Contents(doc') = y /\ doc' \in Documents
  BY <1>1, <1>3
<1>7. OnlyMergedStick'
  BY <1>1, <1>3 DEF OnlyMergedStick, Sticking
<1>8. UndoLine(undoStack, past, now)
  BY DEF HInv
<1>9. History!Redo
  BY <1>2, <1>4, <1>6 DEF History!Redo, History!Last, History!Front, Last, Front
<1> HIDE DEF c, r, y, now, m
<1>10. UndoLine(Append(undoStack, m), Append(past, now), y)
  BY <1>2, <1>5, <1>8, PushUndo
<1>11. UndoLine(undoStack, past, Contents(doc))' /\ RedoLine(redoStack, future, Contents(doc))'
  BY <1>2, <1>4, <1>6, <1>10
<1> QED
  BY <1>6, <1>7, <1>9, <1>11 DEF HInv

LEMMA ClearSteps ==
    ASSUME HInv, UInv', Clear
    PROVE  HInv' /\ History!Forget
<1>1. /\ doc' \in [channels : {<<>>} \cup {<<c>> : c \in Channels}, setting : {doc.setting}]
      /\ undoStack' = <<>> /\ redoStack' = <<>> /\ past' = <<>> /\ future' = <<>>
      /\ returned' = [call |-> "clear", ok |-> TRUE]
  BY DEF Clear, Answer
<1>2. doc'.channels \in Seq(Channels) /\ doc' \in [channels : Seq(Channels), setting : Values]
  <2>1. doc.setting \in Values
    BY DocTyped DEF HInv
  <2>2. \A s \in {<<>>} \cup {<<c>> : c \in Channels} : s \in Seq(Channels)
    <3>1. \A c \in Channels : <<c>> \in Seq(Channels)
      OBVIOUS
    <3> QED
      BY <3>1, EmptySeq
  <2> QED
    BY <1>1, <2>1, <2>2
<1>3. doc' \in Documents
  <2>1. \A i, j \in DOMAIN doc'.channels : i = j
    <3>1. CASE doc'.channels = <<>>
      BY <3>1
    <3>2. CASE \E c \in Channels : doc'.channels = <<c>>
      BY <3>2
    <3> QED
      BY <1>1, <3>1, <3>2
  <2> QED
    BY <1>2, <2>1 DEF Documents
<1>4. OnlyMergedStick'
  BY <1>1 DEF OnlyMergedStick, Sticking
<1>5. UndoLine(undoStack, past, Contents(doc))' /\ RedoLine(redoStack, future, Contents(doc))'
  BY <1>1, EmptyLines
<1>6. History!Forget
  BY <1>1 DEF History!Forget
<1> QED
  BY <1>3, <1>4, <1>5, <1>6 DEF HInv

LEMMA HistoryStep == HInv /\ [Next]_vars => HInv' /\ [AbstractNext]_(History!historyVars)
<1> SUFFICES ASSUME HInv, [Next]_vars PROVE HInv' /\ [AbstractNext]_(History!historyVars)
  OBVIOUS
<1>0. UInv' /\ doc \in Documents
  BY UndoStep DEF HInv
<1>1. CASE Perform
  <2>1. ASSUME NEW c \in Singles \cup Groups PROVE c \in Command /\ ReadyOn(c, Contents(doc))
    BY <1>0, BuiltReady
  <2>2. PICK c \in Singles \cup Groups :
            Refused(c) \/ Pushes(c, FALSE) \/ Pushes(c, TRUE) \/ (c \in Singles /\ Joins(c))
    BY <1>1 DEF Perform
  <2>3. CASE Refused(c)
    BY <1>0, <2>1, <2>3, RefusedSteps
  <2>4. CASE Pushes(c, FALSE)
    BY <1>0, <2>1, <2>4, PushSteps DEF AbstractNext
  <2>5. CASE Pushes(c, TRUE)
    BY <1>0, <2>1, <2>5, PushSteps DEF AbstractNext
  <2>6. CASE c \in Singles /\ Joins(c)
    BY <1>0, <2>6, JoinSteps DEF AbstractNext
  <2> QED
    BY <2>2, <2>3, <2>4, <2>5, <2>6
<1>2. CASE Undo
  BY <1>0, <1>2, UndoSteps DEF AbstractNext
<1>3. CASE Redo
  BY <1>0, <1>3, RedoSteps DEF AbstractNext
<1>4. CASE Clear
  BY <1>0, <1>4, ClearSteps DEF AbstractNext
<1>5. CASE UNCHANGED vars
  <2>1. UNCHANGED <<doc, undoStack, redoStack, returned, past, future>>
    BY <1>5 DEF vars
  <2>2. HInv'
    BY <1>0, <2>1 DEF HInv, OnlyMergedStick, Sticking
  <2> QED
    BY <2>1, <2>2 DEF History!historyVars
<1> QED
  BY <1>1, <1>2, <1>3, <1>4, <1>5 DEF Next

\* The manager of any size implements one line of documents: whatever was
\* executed, merged, undone, redone or refused, undo returns to the channels
\* before the command, redo to the ones before the undo, and a group that
\* fails half way changes nothing (UndoManager.undo, redo, CompositeCommand).
THEOREM EditsAreOneLine == Spec => HistoryIsLinear
<1>1. Init => HInv /\ History!HistoryInit
  BY HistoryBegins
<1>2. HInv /\ [Next]_vars => HInv' /\ [AbstractNext]_(History!historyVars)
  BY HistoryStep
<1> QED
  BY <1>1, <1>2, PTL DEF Spec, HistoryIsLinear, History!HistorySpec, AbstractNext

\* Redo never fails, and undo only on a merged update, which was never marked
\* as executed (_try_merge), or on a rename, whose channel is no longer found.
THEOREM OnlyTheseStick == Spec => []OnlyMergedStick
<1>1. HInv => OnlyMergedStick
  BY DEF HInv
<1> QED
  BY <1>1, HistoryBegins, HistoryStep, PTL DEF Spec
=============================================================================
