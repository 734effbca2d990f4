CONSTANTS
    Upload = {u, v}
    Part = {1}
    Object = {a, b}
    Reference = {note, record}
    Nothing = Nothing
    Request = {p, q}
    AtOnce = 2
    MaxTransfers = 1
    MaxLate = 1
SPECIFICATION Spec
INVARIANTS TypeOK TransferLimit OpenUploadKeepsParts OneObjectAnswered
PROPERTIES CommittedObjectStays
CONSTRAINT Focus
SYMMETRY Symmetry
CHECK_DEADLOCK FALSE
