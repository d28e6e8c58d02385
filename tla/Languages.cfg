SPECIFICATION LanguagesSpec
CONSTANT Nil = Nil
INVARIANTS
    TextsCurrent
    SwitchTruthful
