CONSTANTS
    Items = {"a", "b", "c", "d"}
    TheTree = "tree"
    None = "none"
    InitKids <- MCInitKids
    Texts = {"x"}
    Blank = "blank"
    EditItems = {"a", "c"}
SPECIFICATION Spec
INVARIANT NothingThrown
