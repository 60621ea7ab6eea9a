\* Two queries in the JSON, three writes, two transaction objects at once.
CONSTANTS
    Rev = 2
    MaxWrites = 3
    MaxObjects = 2
SPECIFICATION Spec
INVARIANTS
    TypeOK
    SchemaWhole
    ScopesKept
