SPECIFICATION MessageSpec
CONSTANTS
    Classes <- MCClasses
    Values <- MCValues
    IntMax = 40
    Int64Max = 90
    Now = 77
    Creatable <- MCCreatable
    Content <- MCContent
    MaxOmitted = 2
    MaxHops = 2
INVARIANTS
    FieldsArrive
