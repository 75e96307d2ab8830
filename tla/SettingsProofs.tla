--------------------------- MODULE SettingsProofs ---------------------------
(***************************************************************************)
(* The properties of Settings hold for any registry of settings, any texts   *)
(* and any number of edits of the file.                                     *)
(***************************************************************************)
EXTENDS Settings, TLAPS

\* What set and setNoThrow store passes the validator that the text passed,
\* because the value that was there passed it too.
LEMMA ConvertedValid ==
  ASSUME NEW n \in Names, NEW v \in JsonValues, NEW text \in Texts,
         IsValid(n, v.text), IsValid(n, text), Converts(v.type, text)
  PROVE  /\ Converted(v.type, text) \in JsonValues
         /\ IsValid(n, Converted(v.type, text).text)
<1>1. CASE v.type = "unsigned"
  <2>1. Converted(v.type, text) = [type |-> v.type, text |-> Digits[Number[text]]]
    BY <1>1 DEF Converted
  <2>2. text \in DOMAIN Number /\ Digits[Number[text]] \in Texts
    BY <1>1, SettingsAssumption DEF Converts
  <2>3. Converted(v.type, text) \in JsonValues
    BY <1>1, <2>1, <2>2 DEF JsonValues, Types
  <2>4. Number[text] \in Nat /\ Digits[Number[text]] \in DOMAIN Number
        /\ Number[Digits[Number[text]]] = Number[text] /\ Digits[Number[text]] # ""
    BY <2>2, SettingsAssumption
  <2>5. IsBoolean(text) => IsBoolean(Digits[Number[text]])
    BY <2>2, SettingsAssumption DEF IsBoolean
  <2>6. IsValid(n, Digits[Number[text]])
    BY <2>4, <2>5 DEF IsValid
  <2> QED
    BY <2>1, <2>3, <2>6
<1>2. CASE v.type = "boolean"
  <2>1. Converted(v.type, text) = [type |-> v.type, text |-> ConvertToBool(text)]
    BY <1>2 DEF Converted
  <2>2. ConvertToBool(text) \in {"true", "false"} /\ IsBoolean(ConvertToBool(text))
    BY DEF ConvertToBool, IsBoolean, TrueStrings, FalseStrings
  <2>3. v.text \notin DOMAIN Number
    BY <1>2, SettingsAssumption DEF JsonValues
  <2>4. Converted(v.type, text) \in JsonValues
    <3>1. {"true", "false"} \subseteq Texts
      BY SettingsAssumption
    <3>2. [type |-> v.type, text |-> ConvertToBool(text)] \in [type : Types, text : Texts]
      BY <2>2, <3>1 DEF JsonValues
    <3> QED
      BY <2>1, <2>2, <3>2 DEF JsonValues
  <2>5. IsValid(n, ConvertToBool(text))
    BY <2>2, <2>3 DEF IsValid
  <2> QED
    BY <2>1, <2>4, <2>5
<1>3. CASE v.type \notin {"unsigned", "boolean"}
  <2>1. Converted(v.type, text) = [type |-> v.type, text |-> text]
    BY <1>3 DEF Converted
  <2> QED
    BY <1>3, <2>1 DEF JsonValues
<1> QED
  BY <1>1, <1>2, <1>3

\* Before the first run nothing is stored, in memory or on disk.
LEMMA SettingsInvInit == Init => SettingsInv
<1> SUFFICES ASSUME Init PROVE SettingsInv
  OBVIOUS
<1>1. SettingsTypeOK
  <2>1. Empty \in [{} -> JsonValues] /\ DOMAIN Empty = {}
    BY DEF Empty
  <2>2. edits \in 0..MaxEdits
    <3>1. MaxEdits \in Nat
      BY SettingsAssumption
    <3> QED
      BY <3>1 DEF Init
  <2>3. \A f \in {file, items, started} : f = Empty
    BY DEF Init
  <2>4. settings = Empty /\ mode = "down" /\ disk = "none" /\ edited = FALSE
    BY DEF Init
  <2>5. settings \in [IF mode = "down" THEN {} ELSE Names -> JsonValues]
    BY <2>1, <2>4
  <2>6. \A f \in {file, items, started} :
            f \in [DOMAIN f -> JsonValues] /\ DOMAIN f \subseteq Names \cup {Unknown}
    BY <2>1, <2>3
  <2> QED
    BY <2>2, <2>4, <2>5, <2>6 DEF SettingsTypeOK
<1>2. StoredValid
  BY DEF Init, StoredValid, Empty
<1> QED
  BY <1>1, <1>2 DEF Init, SettingsInv, Acceptable, Empty

\* The registered values are valid, and what a file holds is loaded from it.
LEMMA StartKeeps == SettingsInv /\ Start => SettingsInv'
<1> SUFFICES ASSUME SettingsInv, Start PROVE SettingsInv'
  OBVIOUS
<1> USE SettingsAssumption DEF SettingsInv, Start
<1>1. SettingsTypeOK'
  BY DEF SettingsTypeOK
<1>2. StoredValid'
  BY DEF StoredValid
<1>3. (disk = "whole" /\ ~edited => Acceptable(file))'
  BY DEF Acceptable
<1>4. (mode = "loading" => (~edited => Acceptable(items)) /\ LoadInv)'
  BY DEF Acceptable, LoadInv, SettingsTypeOK
<1> QED
  BY <1>1, <1>2, <1>3, <1>4 DEF SettingsTypeOK

\* An accepted item keeps what is stored valid.
LEMMA LoadItemKeeps ==
  ASSUME NEW n \in Names \cup {Unknown}, SettingsInv, LoadItem(n)
  PROVE  SettingsInv'
<1> USE DEF SettingsInv, LoadItem, Accepted
<1>1. n \in Names /\ IsValid(n, items[n].text) /\ items[n] \in JsonValues
  BY DEF SettingsTypeOK
<1>2. settings \in [Names -> JsonValues]
  BY DEF SettingsTypeOK
<1>3. SettingsTypeOK'
  BY <1>1, <1>2 DEF SettingsTypeOK
<1>4. StoredValid'
  BY <1>1, <1>2 DEF StoredValid
<1>5. LoadInv'
  BY <1>1, <1>2 DEF LoadInv
<1>6. (~edited => Acceptable(items))'
  BY DEF Acceptable
<1>7. (disk = "whole" /\ ~edited => Acceptable(file))'
  BY DEF Acceptable
<1> QED
  BY <1>3, <1>4, <1>5, <1>6, <1>7

\* load throws only for a file that somebody edited.
LEMMA LoadThrowsKeeps ==
  ASSUME NEW n \in Names \cup {Unknown}, SettingsInv, LoadThrows(n)
  PROVE  SettingsInv'
<1> USE DEF SettingsInv, LoadThrows
<1>1. edited
  BY DEF Acceptable, Accepted
<1> QED
  BY <1>1 DEF SettingsTypeOK, StoredValid, Acceptable

\* The end of load changes nothing that is stored.
LEMMA LoadedKeeps == SettingsInv /\ Loaded => SettingsInv'
  BY DEF SettingsInv, Loaded, SettingsTypeOK, StoredValid, Acceptable, Empty

\* What save writes is what passed the validators.
LEMMA SaveKeeps == SettingsInv /\ (Save \/ Written) => SettingsInv'
<1>1. ASSUME SettingsInv, Save PROVE SettingsInv'
  BY <1>1 DEF SettingsInv, Save, SettingsTypeOK, StoredValid, Acceptable, Empty
<1>2. ASSUME SettingsInv, Written PROVE SettingsInv'
  <2> USE <1>2 DEF SettingsInv, Written
  <2>1. settings \in [Names -> JsonValues]
    BY DEF SettingsTypeOK
  <2>2. CASE disk' = "whole" /\ file' = settings /\ edited' = FALSE
    BY <2>1, <2>2 DEF SettingsTypeOK, StoredValid, Acceptable
  <2>3. CASE UNCHANGED <<disk, file, edited>>
    BY <2>1, <2>3 DEF SettingsTypeOK, StoredValid, Acceptable
  <2> QED
    BY <2>2, <2>3
<1> QED
  BY <1>1, <1>2

\* set and setNoThrow keep what is stored valid.
LEMMA SetKeeps ==
  ASSUME NEW n \in Names, NEW text \in Texts, SettingsInv, Set(n, text)
  PROVE  SettingsInv'
<1> USE DEF SettingsInv, Set
<1>1. settings \in [Names -> JsonValues] /\ IsValid(n, settings[n].text)
  BY DEF SettingsTypeOK, StoredValid
<1>2. CASE Validator[n] = "none"
  BY <1>2 DEF SettingsTypeOK, StoredValid, Acceptable
<1>3. CASE Validator[n] # "none"
  <2> DEFINE new == Converted(settings[n].type, text)
  <2>1. new \in JsonValues /\ IsValid(n, new.text)
    BY <1>1, <1>3, ConvertedValid
  <2>2. settings' = [settings EXCEPT ![n] = new] /\ mode' = mode
    BY <1>3
  <2> HIDE DEF new
  <2>3. SettingsTypeOK'
    BY <1>1, <2>1, <2>2 DEF SettingsTypeOK
  <2>4. StoredValid'
    BY <1>1, <2>1, <2>2 DEF StoredValid
  <2> QED
    BY <2>2, <2>3, <2>4 DEF Acceptable
<1> QED
  BY <1>2, <1>3

\* reset goes back to the registered values.
LEMMA ResetKeeps == SettingsInv /\ Reset => SettingsInv'
<1> SUFFICES ASSUME SettingsInv, Reset PROVE SettingsInv'
  OBVIOUS
<1> USE DEF SettingsInv, Reset
<1>1. Default \in [Names -> JsonValues] /\ \A n \in Names : IsValid(n, Default[n].text)
  BY SettingsAssumption
<1>2. SettingsTypeOK'
  BY <1>1 DEF SettingsTypeOK
<1>3. StoredValid'
  BY <1>1 DEF StoredValid
<1> QED
  BY <1>2, <1>3 DEF Acceptable

\* A process that ends leaves the file as it is.
LEMMA EndKeeps == SettingsInv /\ End => SettingsInv'
  BY DEF SettingsInv, End, SettingsTypeOK, StoredValid, Acceptable, Empty

\* The user changes the file only, and is remembered.
LEMMA EditKeeps == SettingsInv /\ Edit => SettingsInv'
<1> SUFFICES ASSUME SettingsInv, Edit PROVE SettingsInv'
  OBVIOUS
<1> USE DEF SettingsInv, Edit
<1>1. SettingsTypeOK'
  <2>1. file' \in [DOMAIN file' -> JsonValues] /\ DOMAIN file' \subseteq Names \cup {Unknown}
    <3>1. Edits \subseteq JsonValues
      BY SettingsAssumption
    <3>2. file \in [DOMAIN file -> JsonValues] /\ DOMAIN file \subseteq Names \cup {Unknown}
      BY DEF SettingsTypeOK
    <3>3. CASE file' = Empty
      BY <3>3 DEF Empty
    <3>4. ASSUME NEW n \in DOMAIN file, file' = [m \in DOMAIN file \ {n} |-> file[m]]
          PROVE  file' \in [DOMAIN file' -> JsonValues]
                 /\ DOMAIN file' \subseteq Names \cup {Unknown}
      BY <3>2, <3>4
    <3>5. ASSUME NEW n \in Names \cup {Unknown}, NEW v \in Edits,
                 file' = [m \in DOMAIN file \cup {n} |-> IF m = n THEN v ELSE file[m]]
          PROVE  file' \in [DOMAIN file' -> JsonValues]
                 /\ DOMAIN file' \subseteq Names \cup {Unknown}
      BY <3>1, <3>2, <3>5
    <3> QED
      BY <3>3, <3>4, <3>5
  <2>2. edits' \in 0..MaxEdits
    <3>1. MaxEdits \in Nat
      BY SettingsAssumption
    <3> QED
      BY <3>1 DEF SettingsTypeOK
  <2>3. disk' \in {"none", "torn", "whole"}
    BY DEF SettingsTypeOK
  <2> QED
    BY <2>1, <2>2, <2>3 DEF SettingsTypeOK
<1>2. StoredValid'
  BY DEF StoredValid
<1>3. (mode = "loading" => LoadInv)'
  BY DEF LoadInv
<1>4. (disk # "whole" => file = Empty)'
  BY DEF Empty
<1> QED
  BY <1>1, <1>2, <1>3, <1>4

\* Every step of the settings keeps the invariant: one lemma per action.
LEMMA SettingsInvNext == SettingsInv /\ [Next]_vars => SettingsInv'
<1>1. ASSUME SettingsInv, UNCHANGED vars PROVE SettingsInv'
  BY <1>1 DEF vars, SettingsInv, SettingsTypeOK, StoredValid, Acceptable, LoadInv
<1> QED
  BY <1>1, StartKeeps, LoadItemKeeps, LoadThrowsKeeps, LoadedKeeps, SaveKeeps,
     SetKeeps, ResetKeeps, EndKeeps, EditKeeps DEF Next

\* The inductive invariant of Settings.
THEOREM SettingsInvariant == Spec => []SettingsInv
<1>1. Init => SettingsInv
  BY SettingsInvInit
<1>2. SettingsInv /\ [Next]_vars => SettingsInv'
  BY SettingsInvNext
<1> QED
  BY <1>1, <1>2, PTL DEF Spec

\* What is stored always passes its validator.
THEOREM StoredAlwaysValid == Spec => []StoredValid
<1>1. SettingsInv => StoredValid
  BY DEF SettingsInv
<1> QED
  BY <1>1, SettingsInvariant, PTL

\* load accepts whatever save wrote: a start fails only on a file that the
\* user edited or that a save left torn.
THEOREM StartsOnOwnFile == Spec => []StartFailsOnlyEdited
<1>1. SettingsInv => StartFailsOnlyEdited
  BY DEF SettingsInv, StartFailsOnlyEdited
<1> QED
  BY <1>1, SettingsInvariant, PTL

\* The program never runs on a part of its file.
THEOREM WholeFileRead == Spec => RunsWholeFile
<1> DEFINE A == mode = "loading" /\ mode' = "running" =>
                    \A n \in DOMAIN started : n \in Names /\ settings'[n] = started[n]
<1>1. SettingsInv /\ [Next]_vars => [A]_vars
  <2> SUFFICES ASSUME SettingsInv, Next, mode = "loading", mode' = "running"
               PROVE  \A n \in DOMAIN started :
                          n \in Names /\ settings'[n] = started[n]
    OBVIOUS
  <2>1. Loaded
    BY DEF Next, Start, LoadItem, LoadThrows, Save, Written, Set, Reset, End, Edit
  <2> QED
    BY <2>1 DEF Loaded, SettingsInv, LoadInv, Empty
<1> QED
  BY <1>1, SettingsInvariant, PTL DEF Spec, RunsWholeFile

\* set, setNoThrow and reset keep a setting readable.
THEOREM ReadableKept == Spec => ReadableStays
<1> DEFINE A == mode = "running" /\ mode' = "running" =>
                    \A n \in Names : Readable(n) => Readable(n)'
<1>1. SettingsInv /\ [Next]_vars => [A]_vars
  <2> SUFFICES ASSUME SettingsInv, Next, mode = "running", mode' = "running",
                      NEW n \in Names, Readable(n)
               PROVE  Readable(n)'
    OBVIOUS
  <2>1. settings \in [Names -> JsonValues]
    BY DEF SettingsInv, SettingsTypeOK
  <2>2. CASE Reset
    BY <2>2, SettingsAssumption DEF Reset, Readable, ReadType
  <2>3. ASSUME NEW m \in Names, NEW text \in Texts, Set(m, text) PROVE Readable(n)'
    <3>1. Converted(settings[m].type, text).type = settings[m].type
      BY DEF Converted
    <3> QED
      BY <2>1, <2>3, <3>1 DEF Set, Readable, ReadType
  <2>4. CASE UNCHANGED settings
    BY <2>4 DEF Readable, ReadType
  <2> QED
    BY <2>2, <2>3, <2>4 DEF Next, Start, LoadItem, LoadThrows, Loaded, Save, Written,
       End, Edit
<1> QED
  BY <1>1, SettingsInvariant, PTL DEF Spec, ReadableStays
=============================================================================
