------------------------------ MODULE Settings ------------------------------
(***************************************************************************)
(* The settings of a node (src/Settings.cpp, src/Settings.h) over the runs   *)
(* of the program: main registers them, reads the settings file or writes    *)
(* it when there is none (src/main.cpp), and the program then reads and may   *)
(* set values.  Between the runs, and while it runs, the user edits the file; *)
(* the process may stop at any point.                                       *)
(*                                                                         *)
(* A value is [type, text]: the type it has in JSON and its text as           *)
(* json_to_string returns it.  A text stands for its spellings in upper and  *)
(* lower case.                                                              *)
(***************************************************************************)
EXTENDS Naturals

CONSTANTS
    Names,          \* the names of the settings that main registers
    Unknown,        \* a name that is none of them
    Validator,      \* per setting: "bool", "range", "notempty", or "none"
    Default,        \* per setting: its registered value
    MinVal, MaxVal, \* of the range validators
    Texts,
    Number,         \* lexical_cast, for the texts that it takes
    Digits,         \* the text of a number
    Edits,          \* the values that the user may put into the file
    MaxEdits        \* bound: number of edits

VARIABLES
    settings,   \* Settings::_settings: from names to values
    disk,       \* the settings file: there is "none", or it is "whole", or "torn"
    file,       \* what a whole file holds: from names to values
    mode,       \* where the process is
    items,      \* what load has still to take from the file
    started,    \* the file this process is loading, whole (only for properties)
    edited,     \* did the user change the file since the program wrote it (the same)
    edits       \* number of edits (only for the bound)

vars == <<settings, disk, file, mode, items, started, edited, edits>>

Types == {"unsigned", "boolean", "string", "null"}
JsonValues ==
    {v \in [type : Types, text : Texts] : v.type = "boolean" => v.text \in {"true", "false"}}

\* The JSON object without items.
Empty == [n \in {} |-> 0]

\* utils::isBoolean and convertToBool.
TrueStrings == {"true", "on", "1"}
FalseStrings == {"false", "off", "0"}
IsBoolean(text) == text \in TrueStrings \cup FalseStrings
ConvertToBool(text) == IF text \in TrueStrings THEN "true" ELSE "false"

IsValid(n, text) ==
    \/ Validator[n] = "bool" /\ IsBoolean(text)
    \/ /\ Validator[n] = "range"
       /\ text \in DOMAIN Number
       /\ MinVal <= Number[text] /\ Number[text] <= MaxVal
    \/ Validator[n] = "notempty" /\ text # ""
    \/ Validator[n] = "none"

(* Operators named Mutant... are not part of the model.  Each is a version   *)
(* of the definition after it with a bug that the checked properties must    *)
(* detect; nothing refers to them.                                          *)
MutantConverted(type, text) == [type |-> "string", text |-> text]

\* What set and setNoThrow make of a text: it keeps the type of the value
\* there is; for any other text they throw.
Converts(type, text) ==
    \/ type = "unsigned" /\ text \in DOMAIN Number
    \/ type = "boolean" /\ IsBoolean(text)
    \/ type = "string"

Converted(type, text) ==
    [type |-> type,
     text |-> IF type = "unsigned" THEN Digits[Number[text]]
              ELSE IF type = "boolean" THEN ConvertToBool(text) ELSE text]

\* The overload of value() that the program calls for a setting returns what
\* is stored if it has this type, and the caller's default if it has not.
ReadType(n) ==
    IF Validator[n] = "bool" THEN "boolean"
    ELSE IF Validator[n] = "range" THEN "unsigned" ELSE "string"
Readable(n) == settings[n].type = ReadType(n)

\* registerBool and registerEnum make a validator of their own, registerString
\* validates the value; registerNumber does not.
ASSUME SettingsAssumption ==
    /\ Unknown \notin Names
    /\ Validator \in [Names -> {"bool", "range", "notempty", "none"}]
    /\ Default \in [Names -> JsonValues]
    /\ \A n \in Names : IsValid(n, Default[n].text) /\ Default[n].type = ReadType(n)
    /\ {"true", "false"} \subseteq Texts
    /\ DOMAIN Number \subseteq Texts \ {"true", "false"}
    /\ \A s \in DOMAIN Number :
        /\ Number[s] \in Nat
        /\ Digits[Number[s]] \in DOMAIN Number
        /\ Number[Digits[Number[s]]] = Number[s]
        /\ Digits[Number[s]] # ""
        /\ s \in TrueStrings => Digits[Number[s]] \in TrueStrings
        /\ s \in FalseStrings => Digits[Number[s]] \in FalseStrings
    /\ MinVal \in Nat /\ MaxVal \in Nat
    /\ Edits \subseteq JsonValues
    /\ MaxEdits \in Nat

Init ==
    /\ settings = Empty
    /\ disk = "none" /\ file = Empty
    /\ mode = "down"
    /\ items = Empty
    /\ started = Empty
    /\ edited = FALSE
    /\ edits = 0
-----------------------------------------------------------------------------
(* A run of the program. *)

\* registerSettings, and the choice of initSettings.
Start ==
    /\ mode = "down"
    /\ settings' = Default
    /\ mode' = IF disk = "none" THEN "saving"
               ELSE IF disk = "torn" THEN "failed" ELSE "loading"
    /\ items' = file
    /\ started' = file
    /\ UNCHANGED <<disk, file, edited, edits>>

Accepted(n) == n \in Names /\ IsValid(n, items[n].text)

\* An item of the file is taken as it is, with the type it has there.
LoadItem(n) ==
    /\ mode = "loading" /\ n \in DOMAIN items
    /\ Accepted(n)
    /\ settings' = [settings EXCEPT ![n] = items[n]]
    /\ items' = [m \in DOMAIN items \ {n} |-> items[m]]
    /\ UNCHANGED <<disk, file, mode, started, edited, edits>>

MutantLoadThrowsNot(n) ==
    /\ mode = "loading" /\ n \in DOMAIN items
    /\ ~Accepted(n)
    /\ items' = [m \in DOMAIN items \ {n} |-> items[m]]
    /\ UNCHANGED <<settings, disk, file, mode, started, edited, edits>>

\* load throws, and main does not catch it.
LoadThrows(n) ==
    /\ mode = "loading" /\ n \in DOMAIN items
    /\ ~Accepted(n)
    /\ mode' = "failed"
    /\ UNCHANGED <<settings, disk, file, items, started, edited, edits>>

Loaded ==
    /\ mode = "loading" /\ items = Empty
    /\ mode' = "running"
    /\ started' = Empty
    /\ UNCHANGED <<settings, disk, file, items, edited, edits>>

\* save truncates the file and then writes it, and does not look whether either
\* worked: the process may run on beside a file that is torn.
Save ==
    /\ mode \in {"saving", "running"}
    /\ \/ mode' = "writing" /\ disk' = "torn" /\ file' = Empty
       \/ mode' = "running" /\ UNCHANGED <<disk, file>>
    /\ UNCHANGED <<settings, items, started, edited, edits>>

Written ==
    /\ mode = "writing"
    /\ mode' = "running"
    /\ \/ disk' = "whole" /\ file' = settings /\ edited' = FALSE
       \/ UNCHANGED <<disk, file, edited>>
    /\ UNCHANGED <<settings, items, started, edits>>

MutantSetUnchecked(n, text) ==
    /\ mode = "running"
    /\ Converts(settings[n].type, text)
    /\ settings' = [settings EXCEPT ![n] = Converted(settings[n].type, text)]
    /\ UNCHANGED <<disk, file, mode, items, started, edited, edits>>

\* Settings::set and setNoThrow ask the validator, which logs.level has not:
\* they call through a null pointer.
Set(n, text) ==
    /\ mode = "running"
    /\ IF Validator[n] = "none"
       THEN mode' = "undefined" /\ UNCHANGED settings
       ELSE /\ IsValid(n, text) /\ Converts(settings[n].type, text)
            /\ settings' = [settings EXCEPT ![n] = Converted(settings[n].type, text)]
            /\ UNCHANGED mode
    /\ UNCHANGED <<disk, file, items, started, edited, edits>>

MutantResetForgets ==
    /\ mode = "running"
    /\ settings' = Empty
    /\ UNCHANGED <<disk, file, mode, items, started, edited, edits>>

Reset ==
    /\ mode = "running"
    /\ settings' = Default
    /\ UNCHANGED <<disk, file, mode, items, started, edited, edits>>

\* The process ends, at any point.
End ==
    /\ mode # "down"
    /\ mode' = "down"
    /\ settings' = Empty /\ items' = Empty /\ started' = Empty
    /\ UNCHANGED <<disk, file, edited, edits>>

-----------------------------------------------------------------------------
(* The user deletes the file, or an item of it, or writes one. *)

Edit ==
    /\ mode # "writing" /\ edits < MaxEdits
    /\ \/ disk' = "none" /\ file' = Empty
       \/ \E n \in DOMAIN file :
              disk' = disk /\ file' = [m \in DOMAIN file \ {n} |-> file[m]]
       \/ \E n \in Names \cup {Unknown}, v \in Edits :
              /\ disk' = "whole"
              /\ file' = [m \in DOMAIN file \cup {n} |-> IF m = n THEN v ELSE file[m]]
    /\ edited' = TRUE
    /\ edits' = edits + 1
    /\ UNCHANGED <<settings, mode, items, started>>

Next ==
    \/ Start
    \/ \E n \in Names \cup {Unknown} : LoadItem(n) \/ LoadThrows(n)
    \/ Loaded
    \/ Save \/ Written
    \/ \E n \in Names, text \in Texts : Set(n, text)
    \/ Reset
    \/ End
    \/ Edit

Spec == Init /\ [][Next]_vars
-----------------------------------------------------------------------------
(* Properties. *)

SettingsTypeOK ==
    /\ settings \in [IF mode = "down" THEN {} ELSE Names -> JsonValues]
    /\ disk \in {"none", "torn", "whole"}
    /\ \A f \in {file, items, started} :
        f \in [DOMAIN f -> JsonValues] /\ DOMAIN f \subseteq Names \cup {Unknown}
    /\ mode \in {"down", "saving", "loading", "writing", "running", "failed", "undefined"}
    /\ edited \in BOOLEAN /\ edits \in 0..MaxEdits

\* Whatever the user writes and in whatever order load, set, setNoThrow, reset
\* and save are called: what is stored passes its validator, also when a load
\* stopped in the middle.
StoredValid ==
    \A n \in DOMAIN settings : n \in Names /\ IsValid(n, settings[n].text)

(***************************************************************************)
(* The inductive invariant of the proofs: what save has written and nobody   *)
(* edited would be accepted, and what load has taken from its file it has    *)
(* stored.                                                                  *)
(***************************************************************************)
Acceptable(f) == \A n \in DOMAIN f : n \in Names /\ IsValid(n, f[n].text)

LoadInv ==
    /\ DOMAIN items \subseteq DOMAIN started
    /\ \A n \in DOMAIN items : items[n] = started[n]
    /\ \A n \in DOMAIN started \ DOMAIN items : n \in Names /\ settings[n] = started[n]

SettingsInv ==
    /\ SettingsTypeOK
    /\ StoredValid
    /\ mode = "failed" => edited \/ disk = "torn"
    /\ disk # "whole" => file = Empty
    /\ disk = "whole" /\ ~edited => Acceptable(file)
    /\ mode = "loading" => (~edited => Acceptable(items)) /\ LoadInv

\* load accepts every file that save wrote: the program does not start only
\* if the user changed the file or a save was cut off.
StartFailsOnlyEdited ==
    mode = "failed" => edited \/ disk = "torn"

\* The program never runs on a part of its file.
RunsWholeFile ==
    [][mode = "loading" /\ mode' = "running" =>
           \A n \in DOMAIN started : n \in Names /\ settings'[n] = started[n]]_vars

\* A setting that value() returns, instead of the caller's default, remains one
\* as long as the process runs.
ReadableStays ==
    [][mode = "running" /\ mode' = "running" =>
           \A n \in Names : Readable(n) => Readable(n)']_vars
=============================================================================
