SPECIFICATION Spec
CONSTANTS
    Names <- MCNames
    Unknown = "unknown"
    Validator <- MCValidator
    Default <- MCDefault
    MinVal = 1024
    MaxVal = 1073741824
    Texts <- MCTexts
    Number <- MCNumber
    Digits <- MCDigits
    Edits <- MCEdits
    MaxEdits = 2
INVARIANTS
    SettingsInv
    StoredValid
    StartFailsOnlyEdited
PROPERTIES
    RunsWholeFile
    ReadableStays
