\* Two processes open a database of any version at the same time and die
\* anywhere.
CONSTANTS
    vector = vector
    audit = audit
    orphan = orphan
    Openers = {a, b}
    Rows = {vector, audit, orphan}
    TableOf <- Tables
    Orphans = {orphan}
SPECIFICATION SchemaSpec
SYMMETRY Symmetry
INVARIANTS
    SchemaTypeOK
    RowsSurviveMigration
    ReopensAtRest
    OpenFindsItsTables
