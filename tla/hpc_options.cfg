\* Every combination of the three variables and of a known or unknown machine.
SPECIFICATION Spec
CONSTANTS
    MaxCount = 3
INVARIANTS
    OptionsTypeOK
    NeverTemplateCores
    CoresAsAsked
