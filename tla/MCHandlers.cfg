CONSTANT Handler = {h1, h2, h3}
SPECIFICATION Spec
SYMMETRY HandlerSymmetry
INVARIANT TableSound
INVARIANT IdsPartition
INVARIANT EachRunsOnce
INVARIANT ResultsExact
PROPERTY IdsAreStable
