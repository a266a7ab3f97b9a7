SPECIFICATION Spec
CONSTANTS
    MaxTyped = 5
    MaximumLength = 3
INVARIANTS MetadataIsTrimmed
