\* Three elements and two lists: an element can be first, last, both or in
\* the middle, and be moved to an empty or a non-empty list.
CONSTANTS
    Elm = {e1, e2, e3}
    List = {l1, l2}
    NULL = NULL
    SizeMod = 8
SPECIFICATION Spec
INVARIANTS ListsRepresented ForeachVisitsEach
