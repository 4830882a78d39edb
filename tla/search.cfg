SPECIFICATION Spec
CONSTANTS
    Chars <- mc_Chars
    Space = " "
    Lower <- mc_Lower
    Code <- mc_Code
    Texts <- mc_Texts
    Sections <- mc_Sections
    MaxLoads = 2
    MaxStray = 1
INVARIANTS
    TypeOK
    InactiveBoxIsEmpty
    QuietBoxShowsField
PROPERTIES
    ArrowsFollowTheList
    TypedTextIsSearched
