SPECIFICATION Spec
CONSTANTS
    Absent = Absent
    Texts <- MCTexts
    StripLower <- MCStripLower
    IntOf <- MCIntOf
    Items <- MCItems
    Editable <- MCEditable
    MaxEdits = 3
INVARIANTS
    TypeOK
    RelaxedOnlyIfSet
    NumbersAreAsWritten
    KeysAreTheItems
