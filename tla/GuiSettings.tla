------------------------------- MODULE GuiSettings ------------------------------
(***************************************************************************)
(* What the GUI keeps on disk over its runs: the settings of               *)
(* SettingsManager and the theme of ThemeManager, as Dashboard makes and   *)
(* destroys them.                                                          *)
(*                                                                         *)
(* The settings are one value of a small set, and so is the theme.  The    *)
(* constructor of SettingsManager does not set m_dirty, whose declaration  *)
(* the repository lacks: until the settings are loaded it is either value. *)
(***************************************************************************)
EXTENDS Naturals

CONSTANTS Settings, Themes, Default, DefaultTheme,
          MaxChanges      \* bound on the changes of settings and theme

SettingsAssumption ==
    Default \in Settings /\ DefaultTheme \in Themes /\ MaxChanges \in Nat

VARIABLES running,        \* whether the program runs
          settings, dirty, timers,     \* and its single shots that will save
          settingsFile,                \* what the file holds
          theme, themeFile,
          saveFailed,     \* whether the file did not open for a save in this run
          truncated,      \* whether the last save of this run opened, and so
                          \* emptied, the file and could not write it
          synced,         \* whether this run has loaded or opened the file
          changes
settingsVars == <<running, settings, dirty, timers, settingsFile, theme,
                  themeFile, saveFailed, truncated, synced, changes>>

Missing == "missing"
Invalid == "invalid"     \* not an object, or not to be opened

Init ==
    /\ running = FALSE
    /\ settings = Default /\ dirty = FALSE /\ timers = 0
    /\ settingsFile \in {Missing, Invalid} \cup Settings
    /\ theme = DefaultTheme /\ themeFile \in {Missing} \cup Themes
    /\ saveFailed = FALSE /\ truncated = FALSE /\ synced = FALSE /\ changes = 0

-----------------------------------------------------------------------------
\* Dashboard constructs both managers and loads the settings; nothing calls
\* ThemeManager::initialize(), which would load the theme.
StartUp ==
    /\ ~ running /\ running' = TRUE
    /\ synced' = (settingsFile \in Settings)
    /\ settings' = IF settingsFile \in Settings THEN settingsFile ELSE Default
    /\ IF settingsFile \in Settings THEN dirty' = FALSE ELSE dirty' \in BOOLEAN
    /\ theme' = DefaultTheme /\ timers' = 0
    /\ saveFailed' = FALSE /\ truncated' = FALSE
    /\ UNCHANGED <<settingsFile, themeFile, changes>>

\* Mutant of SetDirty: the save is not scheduled.
SetDirtyOnly == dirty' = TRUE /\ UNCHANGED timers

\* setDirty(true) schedules a save when the settings were clean.
SetDirty == dirty' = TRUE /\ timers' = IF dirty THEN timers ELSE timers + 1

\* A setter with another value.
SetSetting(v) ==
    /\ running /\ changes < MaxChanges /\ changes' = changes + 1
    /\ v # settings /\ settings' = v
    /\ SetDirty
    /\ UNCHANGED <<running, settingsFile, theme, themeFile, saveFailed, truncated,
                   synced>>

\* The file opens, which empties it, and takes little or nothing of what is
\* written: nobody looks at the result of write(), and the settings are clean.
Unwritten ==
    /\ dirty' = FALSE /\ synced' = TRUE /\ truncated' = TRUE
    /\ settingsFile' = Invalid /\ UNCHANGED saveFailed

\* save() of dirty settings v; if the file does not open they stay dirty.
Write(v) ==
    \/ /\ dirty' = FALSE /\ synced' = TRUE /\ truncated' = FALSE
       /\ settingsFile' = v /\ UNCHANGED saveFailed
    \/ Unwritten
    \/ /\ dirty' = TRUE /\ saveFailed' = TRUE
       /\ UNCHANGED <<settingsFile, truncated, synced>>

Save == IF dirty THEN Write(settings)
        ELSE UNCHANGED <<dirty, settingsFile, saveFailed, truncated, synced>>

AutoSave ==
    /\ running /\ timers > 0 /\ timers' = timers - 1
    /\ Save
    /\ UNCHANGED <<running, settings, theme, themeFile, changes>>

\* A view saves at once; resetToDefaults() sets dirty, schedules and saves.
SaveNow ==
    /\ running /\ dirty
    /\ Save
    /\ UNCHANGED <<running, settings, timers, theme, themeFile, changes>>

ResetToDefaults ==
    /\ running /\ changes < MaxChanges /\ changes' = changes + 1
    /\ settings' = Default
    /\ timers' = IF dirty THEN timers ELSE timers + 1
    /\ Write(Default)
    /\ UNCHANGED <<running, theme, themeFile>>

\* A colour setter saves the theme; toggleTheme() and setDarkTheme() do not.
SetTheme(v, saves) ==
    /\ running /\ changes < MaxChanges /\ changes' = changes + 1
    /\ v # theme /\ theme' = v
    /\ themeFile' = IF saves THEN v ELSE themeFile
    /\ UNCHANGED <<running, settings, dirty, timers, settingsFile, saveFailed,
                   truncated, synced>>

\* The destructors save: the settings if dirty, the theme in any case.
ShutDown ==
    /\ running /\ running' = FALSE
    /\ Save
    /\ themeFile' = theme /\ timers' = 0
    /\ UNCHANGED <<settings, theme, changes>>

\* The process dies.
Crash ==
    /\ running /\ running' = FALSE /\ timers' = 0
    /\ UNCHANGED <<settings, dirty, settingsFile, theme, themeFile, saveFailed,
                   truncated, synced, changes>>

Next == \/ StartUp \/ AutoSave \/ SaveNow \/ ResetToDefaults \/ ShutDown \/ Crash
        \/ \E v \in Settings : SetSetting(v)
        \/ \E v \in Themes, saves \in BOOLEAN : SetTheme(v, saves)

Fairness == WF_settingsVars(AutoSave)

-----------------------------------------------------------------------------
\* Once there is a file, settings that are not dirty are its settings, over every
\* failed save, reset and restart, unless the last save truncated it: then it holds
\* no settings at all, and the next run starts with the defaults.  It never holds
\* older settings than the clean ones.
CleanIsSaved ==
    running /\ synced /\ ~ dirty =>
        settingsFile = IF truncated THEN Invalid ELSE settings

\* Once the file is loaded or opened, changed settings are in it in the end while
\* the program runs, unless a save fails: when the file does not open nothing is
\* scheduled until they are saved by hand, and a write that fails counts as done.
ChangesAreSaved ==
    dirty /\ synced /\ running ~>
        settingsFile = settings \/ saveFailed \/ truncated \/ ~ running
=============================================================================
