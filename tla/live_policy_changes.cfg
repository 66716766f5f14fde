SPECIFICATION Spec
CONSTANTS
    Req = {r1, r2, r3}
    PolicyChanges = TRUE
SYMMETRY Symmetry
INVARIANTS TypeOK RecordsNameTheVenue ReservedForOpenPaperOrders
PROPERTIES NothingSentWhileForbidden StatusIsFinal LiveCancelIsConfirmed
