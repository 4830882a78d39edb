SPECIFICATION Spec
CONSTANTS
    root = root
    main = main
    classes = classes
    class = class
    member = member
    again = again
    index_html = index_html
    class_html = class_html
    h = h
    line = line
    NoHash = NoHash
    NoLink = NoLink
    Nowhere = Nowhere
    Root = root
    Nodes <- mc_Nodes
    Kids <- mc_Kids
    Lazy <- mc_Lazy
    LinkOf <- mc_LinkOf
    Index <- mc_Index
    Pages <- mc_Pages
    MainPages <- mc_MainPages
    Hashes <- mc_Hashes
    LineHashes <- mc_LineHashes
    MaxPath = 4
    MaxPending = 2
INVARIANTS
    TypeOK
    NodesMadeOnce
    QuietTreeFollows
PROPERTIES
    LoadsEnd
