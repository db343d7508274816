SPECIFICATION Spec
CONSTANTS
    foo = foo
    bar = bar
    baz = baz
    a = a
    b = b
    c = c
    NoVersion = NoVersion
    Pacticipants <- FewPacticipants
    Versions <- FewVersions
    Contents <- FewContents
    Established <- AllButBar
    Questions <- AboutBar
    Ignores <- IgnoreOne
    MaxChanges = 1
INVARIANTS TypeOK YesCoversProviders YesCoversConsumers NoHasAReason
SYMMETRY ContentSymmetry
CHECK_DEADLOCK FALSE
