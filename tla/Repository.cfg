SPECIFICATION RepositorySpec
CONSTANTS
    Calls = {t1, t2}
    Earlier = Earlier
INVARIANTS
    AsPromised
    OneWinner
    EventsNumbered
    SearchNeverStale
SYMMETRY CallSymmetry
CHECK_DEADLOCK FALSE
