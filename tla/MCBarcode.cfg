CONSTANT Tracks <- MCTracks
SPECIFICATION Spec
INVARIANT FirstLabelDecodes
