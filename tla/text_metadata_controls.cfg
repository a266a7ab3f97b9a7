SPECIFICATION Spec
CONSTANTS
    MaxTyped = 3
    MaximumLength = 3
INVARIANTS MetadataHasNoControls
