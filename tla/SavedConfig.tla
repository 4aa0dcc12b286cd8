---------------------------- MODULE SavedConfig ----------------------------
(***************************************************************************)
(* What saving a configuration promises across power failures: a start     *)
(* restores either the configuration saved last, whole, or nothing, and    *)
(* what is stored is given up only while a save or a clear is under way.   *)
(***************************************************************************)
CONSTANTS Configs, Nothing      \* Nothing is not one of the Configs

VARIABLES loaded, stored, writing

savedVars == <<loaded, stored, writing>>

SavedTypeOK ==
    loaded \in Configs \cup {Nothing} /\ stored \in Configs \cup {Nothing} /\ writing \in BOOLEAN

Start == loaded' = stored /\ writing' = FALSE /\ UNCHANGED stored

SavedInit == loaded = Nothing /\ stored = Nothing /\ writing = FALSE

Receive == loaded' \in Configs \cup {Nothing} /\ ~writing /\ UNCHANGED <<stored, writing>>

BeginSave == ~writing /\ writing' = TRUE /\ loaded # Nothing /\ UNCHANGED <<loaded, stored>>

BeginClear == ~writing /\ writing' = TRUE /\ loaded' = Nothing /\ UNCHANGED stored

\* A step of the save or clear: what is stored may be given up, and what is
\* loaded takes its place only once it has been.
Write ==
    /\ writing /\ writing' \in BOOLEAN
    /\ stored' \in {stored, Nothing} \/ (stored = Nothing /\ stored' = loaded)
    /\ UNCHANGED loaded

\* Power fails while the sector is being erased.
StartEmpty ==
    writing /\ stored' = Nothing /\ loaded' = Nothing /\ writing' = FALSE

SavedNext == Start \/ Receive \/ BeginSave \/ BeginClear \/ Write \/ StartEmpty

SavedSpec == SavedInit /\ [][SavedNext]_savedVars
=============================================================================
