\* Two chunks, the shared collection, that of a skill with retrieval and that
\* of a skill without, two requests at a time, two restarts.
SPECIFICATION Spec
CONSTANTS
  Ids = {d1, d2}
  Scopes = {None, Global, research, data_analysis}
  None = None
  Global = Global
  RagSkills = {research}
  Requests = {q1, q2}
  MaxChunks = 2
  MaxRestarts = 2
SYMMETRY ChunkAndRequestSymmetry
INVARIANTS TypeOK IngestedIsFound DeletedStaysDeleted RowsHaveChunks
CHECK_DEADLOCK FALSE
