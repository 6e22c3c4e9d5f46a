\* An answer for entities in the right envelope: one item fits, another one
\* does not.
SPECIFICATION Spec
CONSTANTS
    i1 = i1
    i2 = i2
    Item = {i1, i2}
    Unnamed = Unnamed
    Active = {"ExtractedEntities"}
    Schemas = {"ExtractedEntities"}
    Answers <- MCListed
INVARIANTS
    EmptyOnlyWithoutData
CHECK_DEADLOCK FALSE
